---- MODULE Spec2Model ----
(***************************************************************************)
(* Model of the codewhisperer analysis pipeline.                           *)
(*                                                                         *)
(*  - CodebaseScanner (src/src/parsers/CodebaseScanner.js): parseFiles,    *)
(*    fallbackAnalysis, analyzeAST, buildDependencyGraph,                  *)
(*    resolveImportPath, calculateComplexity, calculateMetrics,            *)
(*    detectArchitecturalPatterns and the five detectors.                  *)
(*  - The HTTP server's upload analysis (the JavaScript listing embedded   *)
(*    in src/DEMO_SCRIPT.md): parseJavaScriptContent, analyzeUploadedFiles,*)
(*    generateMockDependencies, generateMockPatterns,                      *)
(*    generateSmartArchitecturalInsights.                                  *)
(*                                                                         *)
(* A source text is a sequence of tokens.  Every token stands for one      *)
(* concrete piece of text; consecutive tokens are separated by one blank,  *)
(* and the token "nl" is the newline character:                            *)
(*                                                                         *)
(*    fn       function N(){}            class    class N {}               *)
(*    constfn  const N = () => 0         import   import x from 'N'        *)
(*    letfn    let N = (0)               require  require('N')             *)
(*    method   N: function(){}           modexp   module.exports = x       *)
(*    arrow    N => 0                    expdot   exports.N = 1            *)
(*    junk     {(                        export   export default N         *)
(*    def      def N():                  pyclass  class N:                 *)
(*    pyimport import N #c               pyfrom   from N import x #c       *)
(*    manifest {"dependencies":{N}} (N = "" : no dependencies key;        *)
(*             N = "a,b" : the two dependencies a and b)                   *)
(*                                                                         *)
(* A regular expression of the source is modelled by the token kinds whose *)
(* text it matches and by the capture group it returns for them.  A match  *)
(* position is a token index; the line of a match is 1 + the number of     *)
(* newline tokens before it.                                               *)
(***************************************************************************)
EXTENDS Naturals, Integers, Sequences, FiniteSets, TLC

VARIABLES
    exFile,       \* extraction: the file handed to the extractor
    exContent,    \* extraction: its text
    exBy,         \* extraction: which extractor has run ("none" before)
    exOut,        \* extraction: what the extractor delivered
    entry,        \* pipeline: "scanRepository" or "analyzeUploadedFiles"
    files,        \* pipeline: the files found (scanner) or uploaded (server)
    disk,         \* scanner: the text of each found file
    unreadable,   \* scanner: the found files fs.readFile throws on
    strategy,     \* scanner: how each file was analysed, in parse order
    treeSitterLoaded,  \* scanner: this.treeSitterLoaded
    parsersInit,  \* scanner: "pending" while initializeParsers is in flight
    pc,           \* pipeline: where the call is
    idx,          \* scanner: the parseFiles loop's position
    parsedFiles,  \* scanner: parseFiles' accumulator
    graph,        \* scanner: the graph buildDependencyGraph returned
    patterns,     \* scanner: what detectArchitecturalPatterns returned
    result,       \* pipeline: the analysis result delivered
    callee,       \* function call: the function to call
    argument,     \* function call: the argument handed to it
    applied,      \* function call: whether it has run
    returned,     \* function call: what it returned
    now,          \* browser app: the time, in units of TickMs
    isAnalyzing,  \* browser app: this.isAnalyzing
    currentAnalysis,  \* browser app: this.currentAnalysis (0: null, i: the
                  \*   result of the i-th started analysis)
    calls,        \* browser app: the analyzeRepository calls that started
    lastCall,     \* browser app: how the latest analyzeRepository call began
    d3Loaded,     \* browser app: whether the D3 script has loaded
    appWhisperer, \* browser app: this.whisperer
    messageDiv,   \* browser app: the #messageDisplay element in the
                  \*   document (0: none)
    divs,         \* browser app: how many such elements were created
    message,      \* browser app: the text shown in it, and since when
    timers,       \* browser app: the pending hide timers of showMessage
    sent          \* browser app: the questions handed to answerQuestion

exVars == <<exFile, exContent, exBy, exOut>>

scanVars == <<entry, files, disk, unreadable, strategy, treeSitterLoaded,
              parsersInit, pc, idx, parsedFiles, graph, patterns, result>>

callVars == <<callee, argument, applied, returned>>

appVars == <<now, isAnalyzing, currentAnalysis, calls, lastCall, d3Loaded, appWhisperer,
             messageDiv, divs, message, timers, sent>>

vars == <<exFile, exContent, exBy, exOut, entry, files, disk, unreadable,
          strategy, treeSitterLoaded, parsersInit, pc, idx, parsedFiles, graph,
          patterns, result, callee, argument, applied, returned,
          now, isAnalyzing, currentAnalysis, calls, lastCall, d3Loaded, appWhisperer,
          messageDiv, divs, message, timers, sent>>

(***************************************************************************)
(* Bounds                                                                  *)
(***************************************************************************)
MaxLen == 3
MaxFiles == 2
MaxCount == 7
MaxCollection == 3
MaxTime == 6
MaxCalls == 2
MaxQuestions == 1
MaxTimers == 2

(***************************************************************************)
(* Tokens and texts                                                        *)
(***************************************************************************)
Tok(k, n) == [k |-> k, n |-> n]

JsTokens ==
    { Tok("fn", "foo"), Tok("fn", "bar"), Tok("constfn", "foo"),
      Tok("letfn", "foo"), Tok("method", "foo"), Tok("arrow", "foo"),
      Tok("class", "Foo"),
      Tok("import", "./b"), Tok("import", "lodash"), Tok("require", "./b"),
      Tok("modexp", ""), Tok("expdot", "foo"), Tok("export", "foo"),
      Tok("nl", ""), Tok("junk", "") }

PyTokens ==
    { Tok("def", "foo"), Tok("pyclass", "Foo"), Tok("pyimport", "os"),
      Tok("pyfrom", "os"), Tok("nl", ""), Tok("junk", "") }

JsonTokens ==
    { Tok("manifest", "react"), Tok("manifest", ""), Tok("nl", ""),
      Tok("junk", ""), Tok("fn", "foo"), Tok("import", "./b") }

TextsOver(alphabet, n) == UNION { [1..m -> alphabet] : m \in 0..n }

Range(seq) == { seq[i] : i \in 1..Len(seq) }

Min(S) == CHOOSE x \in S : \A y \in S : x <= y
Max(S) == CHOOSE x \in S : \A y \in S : y <= x

\* the elements of a set of numbers, ascending
RECURSIVE Ascending(_)
Ascending(S) == IF S = {} THEN << >> ELSE << Min(S) >> \o Ascending(S \ {Min(S)})

\* content.substring(0, match.index).split('\n').length
LineOf(content, i) == 1 + Cardinality({ j \in 1..(i - 1) : content[j].k = "nl" })

\* content.split('\n').length
LineCount(content) == 1 + Cardinality({ j \in 1..Len(content) : content[j].k = "nl" })

\* the tokens of line l (line.trim() drops nothing a rule reads)
TokensOnLine(content, l) ==
    { i \in 1..Len(content) : content[i].k # "nl" /\ LineOf(content, i) = l }

\* every match of a global regex matching the token kinds `kinds`, in text
\* order: pattern.exec(content) in a loop.  A record keeps the captured name
\* and the line; parameters (always []) and isAsync are left out
RECURSIVE ExecAll(_, _, _)
ExecAll(content, kinds, i) ==
    IF i > Len(content) THEN << >>
    ELSE (IF content[i].k \in kinds
             THEN << [name |-> content[i].n, line |-> LineOf(content, i)] >>
             ELSE << >>)
         \o ExecAll(content, kinds, i + 1)

(***************************************************************************)
(* CodebaseScanner.fallbackAnalysis                                        *)
(***************************************************************************)
EmptyAnalysis ==
    [functions |-> << >>, classes |-> << >>, imports |-> << >>,
     exports |-> << >>, variables |-> << >>, calls |-> << >>]

\* the five functionPatterns, each as the token kinds it matches
functionPatterns == << {"fn"}, {"constfn"}, {"letfn"}, {"method"}, {"arrow"} >>

\* functionPatterns.forEach(pattern => { while (exec) functions.push(...) })
RECURSIVE ForEachPattern(_, _, _)
ForEachPattern(content, patternList, p) ==
    IF p > Len(patternList) THEN << >>
    ELSE ExecAll(content, patternList[p], 1) \o ForEachPattern(content, patternList, p + 1)

ImportRec(m, l) == [module |-> m, line |-> l, type |-> "import"]

ToImports(matches) == [i \in 1..Len(matches) |-> ImportRec(matches[i].name, matches[i].line)]

\* /import.*from\s+['"`]([^'"`]+)['"`]/g : the match starts at the first
\* "import" of a line and the greedy .* runs to the last from-clause of that
\* line, so a line yields one match, capturing its last specifier
RECURSIVE ImportFromExec(_, _)
ImportFromExec(content, l) ==
    IF l > LineCount(content) THEN << >>
    ELSE LET imps == { i \in TokensOnLine(content, l) : content[i].k = "import" }
         IN  (IF imps = {} THEN << >>
              ELSE << ImportRec(content[Max(imps)].n, l) >>)
             \o ImportFromExec(content, l + 1)

JsFamily == {"js", "jsx", "ts", "tsx", "mjs"}

\* fallbackAnalysis with the JavaScript rules applied to every file that is
\* not Python (the extension test of the first branch dropped)
fallbackAnalysisAnyExtension(content, file) ==
    IF file.extension # "py"
    THEN [EmptyAnalysis EXCEPT
            !.functions = ForEachPattern(content, functionPatterns, 1),
            !.classes   = ExecAll(content, {"class"}, 1),
            !.imports   = ImportFromExec(content, 1)
                          \o ToImports(ExecAll(content, {"require"}, 1))]
    ELSE [EmptyAnalysis EXCEPT
            !.functions = ExecAll(content, {"def"}, 1),
            !.classes   = ExecAll(content, {"pyclass"}, 1),
            !.imports   = ToImports(ExecAll(content, {"pyimport", "pyfrom"}, 1))]

fallbackAnalysis(content, file) ==
    IF file.extension \in JsFamily
    THEN [EmptyAnalysis EXCEPT
            !.functions = ForEachPattern(content, functionPatterns, 1),
            !.classes   = ExecAll(content, {"class"}, 1),
            !.imports   = ImportFromExec(content, 1)
                          \o ToImports(ExecAll(content, {"require"}, 1))]
    ELSE IF file.extension = "py"
    THEN [EmptyAnalysis EXCEPT
            !.functions = ExecAll(content, {"def"}, 1),
            !.classes   = ExecAll(content, {"pyclass"}, 1),
            !.imports   = ToImports(ExecAll(content, {"pyimport", "pyfrom"}, 1))]
    ELSE EmptyAnalysis

(***************************************************************************)
(* Server: parseJavaScriptContent (line by line, first match of each rule  *)
(* per line)                                                               *)
(***************************************************************************)
Append1(seq, x) == IF \E i \in 1..Len(seq) : seq[i] = x THEN seq ELSE Append(seq, x)

parseLine(content, l, analysis) ==
    LET toks  == TokensOnLine(content, l)
        fns   == { i \in toks : content[i].k \in {"fn", "constfn", "method"} }
        cls   == { i \in toks : content[i].k = "class" }
        imps  == { i \in toks : content[i].k \in {"require", "import"} }
        froms == { i \in toks : content[i].k = "import" }
        exps  == { i \in toks : content[i].k \in {"modexp", "expdot", "export"} }
        funcName   == content[Min(fns)].n
        importName == IF content[Min(imps)].k = "require"
                         THEN content[Min(imps)].n
                         ELSE content[Max(froms)].n
        exportName == IF content[Min(exps)].k = "export"
                         THEN content[Min(exps)].n
                         ELSE "default"
    IN  [functions |->
            IF fns # {} /\ ~ \E i \in 1..Len(analysis.functions) :
                                analysis.functions[i].name = funcName
            THEN Append(analysis.functions, [name |-> funcName, type |-> "function"])
            ELSE analysis.functions,
         classes |->
            IF cls # {}
            THEN Append(analysis.classes, [name |-> content[Min(cls)].n, type |-> "class"])
            ELSE analysis.classes,
         imports |->
            IF imps # {} THEN Append1(analysis.imports, importName)
            ELSE analysis.imports,
         exports |->
            IF exps # {} THEN Append1(analysis.exports, exportName)
            ELSE analysis.exports]

RECURSIVE ParseLines(_, _, _)
ParseLines(content, l, analysis) ==
    IF l > LineCount(content) THEN analysis
    ELSE ParseLines(content, l + 1, parseLine(content, l, analysis))

EmptyUploadAnalysis ==
    [functions |-> << >>, classes |-> << >>, imports |-> << >>, exports |-> << >>]

parseJavaScriptContent(content) == ParseLines(content, 1, EmptyUploadAnalysis)

(***************************************************************************)
(* Files.  A path is its segments and whether it is absolute.              *)
(***************************************************************************)
Path(abs, segs) == [abs |-> abs, segs |-> segs]

\* path.extname(name).slice(1), and name.split('.').pop().toLowerCase(),
\* which agree on the names of the model
\* the names of the files of a large project
BulkNames ==
    <<
       "f01.js", "f02.js", "f03.js", "f04.js", "f05.js", "f06.js", "f07.js", "f08.js",
       "f09.js", "f10.js", "f11.js", "f12.js", "f13.js", "f14.js", "f15.js", "f16.js",
       "f17.js", "f18.js", "f19.js", "f20.js", "f21.js", "f22.js", "f23.js", "f24.js",
       "f25.js", "f26.js", "f27.js", "f28.js", "f29.js", "f30.js", "f31.js", "f32.js",
       "f33.js", "f34.js", "f35.js", "f36.js", "f37.js", "f38.js", "f39.js", "f40.js",
       "f41.js", "f42.js", "f43.js", "f44.js", "f45.js", "f46.js", "f47.js", "f48.js",
       "f49.js", "f50.js" >>

ExtOf(name) ==
    CASE name \in {"a.js", "b.js", "c.js", "app.js"} -> "js"
      [] name \in {"service-controller.js", "model-store.js",
                   "middleware-helper.js"}         -> "js"
      [] name \in { BulkNames[i] : i \in 1..Len(BulkNames) } -> "js"
      [] name \in {"user.js", "home.js", "UserModel.js", "App.js", "Header.js",
                   "server.js", "big.js", "hundred.js"} -> "js"
      [] name = "index.html"                          -> "html"
      [] name = "style.css"                           -> "css"
      [] name = "README.md"                           -> "md"
      [] name = "app.ts"                              -> "ts"
      [] name = "tool.py"                             -> "py"
      [] name = "notes.md"                            -> "md"
      [] name \in {"package.json", "data.json"}       -> "json"

\* the record findSourceFiles builds for the file `name` of directory `dir`
\* of the repository at `repoPath` (size: the length of the text)
SourceFile(repoPath, dir, name, content) ==
    [path         |-> Path(repoPath.abs, repoPath.segs \o dir \o <<name>>),
     relativePath |-> Path(FALSE, dir \o <<name>>),
     extension    |-> ExtOf(name),
     name         |-> name,
     size         |-> Len(content)]

(***************************************************************************)
(* CodebaseScanner.analyzeAST, calculateComplexity and the body of the     *)
(* parseFiles loop                                                         *)
(***************************************************************************)
\* the extensions initializeParsers registers a parser for
ParserExtensions == {"js", "jsx", "mjs", "ts", "tsx", "py"}

\* the token kinds whose syntax tree holds a node of a type traverse()
\* handles: function_declaration, function_expression, arrow_function,
\* method_definition, class_declaration, import_statement,
\* import_from_statement, call_expression
HandledNodeKinds ==
    {"fn", "constfn", "method", "arrow", "class", "import", "require",
     "pyimport", "pyfrom"}

\* traverse.call(this, rootNode) recurses as traverse(child), where `this`
\* is undefined: the first handled node below the root throws a TypeError;
\* a tree without one is walked to the end and nothing is recorded
analyzeAST(content, file) ==
    [threw    |-> \E i \in 1..Len(content) : content[i].k \in HandledNodeKinds,
     analysis |-> EmptyAnalysis]

\* calculateComplexity with a class weighing as much as a function
calculateComplexityClassesOnce(analysis) ==
    10 * Len(analysis.functions) + 10 * Len(analysis.classes) + Len(analysis.calls)

\* functions + 2 * classes + 0.1 * calls, in tenths
calculateComplexity(analysis) ==
    10 * Len(analysis.functions) + 20 * Len(analysis.classes) + Len(analysis.calls)

ParsedRecord(file, content, analysis, lineCount, complexity) ==
    [path |-> file.path, relativePath |-> file.relativePath,
     extension |-> file.extension, name |-> file.name, size |-> file.size,
     content |-> content, analysis |-> analysis,
     lineCount |-> lineCount, complexity |-> complexity]

\* the try block of the loop: what it pushes, or that it threw
TryParse(file, content, tsLoaded, readOk) ==
    LET ast == analyzeAST(content, file)
        useAst == tsLoaded /\ file.extension \in ParserExtensions
        analysis == IF useAst THEN ast.analysis ELSE fallbackAnalysis(content, file)
    IN  [threw |-> ~readOk \/ (useAst /\ ast.threw),
         rec   |-> ParsedRecord(file, content, analysis, LineCount(content),
                                calculateComplexity(analysis))]

\* the catch block computing lineCount from the emptied content, as the try
\* block does (''.split('\n').length is 1)
CatchParseCountsLines(file) == ParsedRecord(file, << >>, EmptyAnalysis, 1, 0)

\* the catch block of the loop
CatchParse(file) == ParsedRecord(file, << >>, EmptyAnalysis, 0, 0)

\* the loop body without its try/catch: the error leaves parseFiles
ParseOneUncaught(file, content, tsLoaded, readOk) ==
    LET try == TryParse(file, content, tsLoaded, readOk)
    IN  [raised |-> try.threw, rec |-> try.rec]

\* one iteration of the parseFiles loop: the record pushed, and whether an
\* error left the loop
ParseOne(file, content, tsLoaded, readOk) ==
    LET try == TryParse(file, content, tsLoaded, readOk)
    IN  [raised |-> FALSE,
         rec    |-> IF try.threw THEN CatchParse(file) ELSE try.rec]

(***************************************************************************)
(* Server: one iteration of the analyzeUploadedFiles loop                  *)
(***************************************************************************)
\* JSON.parse(content): the text is one JSON object and white space
JsonParse(content) ==
    LET objs == { i \in 1..Len(content) : content[i].k = "manifest" }
    IN  IF Cardinality(objs) = 1 /\ \A i \in 1..Len(content) : content[i].k \in {"manifest", "nl"}
        THEN [ok |-> TRUE, dependencies |-> content[Min(objs)].n]
        ELSE [ok |-> FALSE, dependencies |-> ""]

\* the dependency names a manifest token lists ("" : no dependencies key)
DepsOf(n) ==
    CASE n = ""              -> << >>
      [] n = "react,express" -> << "react", "express" >>
      [] n = "express,jest"  -> << "express", "jest" >>
      [] OTHER               -> << n >>

\* Object.keys(pkg.dependencies || {})
DependencyKeys(pkg) == DepsOf(pkg.dependencies)

\* try { JSON.parse ... } catch (e) { log }
ManifestImports(content) ==
    LET pkg == JsonParse(content)
    IN  [raised |-> FALSE,
         imports |-> IF pkg.ok THEN DependencyKeys(pkg) ELSE << >>]

AnalyzeUploadedFile(name, content) ==
    LET extension == ExtOf(name)
        manifest  == ManifestImports(content)
        isManifest == content # << >> /\ extension = "json" /\ name = "package.json"
    IN  [raised |-> isManifest /\ manifest.raised,
         rec |->
           [name |-> name, relativePath |-> Path(FALSE, <<name>>),
            size |-> Len(content), extension |-> extension, content |-> content,
            lineCount |-> IF content # << >> THEN LineCount(content) ELSE 0,
            analysis |->
              IF content # << >> /\ extension = "js"
                 THEN parseJavaScriptContent(content)
              ELSE IF isManifest
                 THEN [EmptyUploadAnalysis EXCEPT !.imports = manifest.imports]
              ELSE EmptyUploadAnalysis]]

(***************************************************************************)
(* path.dirname, path.resolve and CodebaseScanner.resolveImportPath        *)
(***************************************************************************)
\* process.cwd()
Cwd == <<"work">>

\* the segments of a module specifier
Segs(module) ==
    CASE module = "./b"       -> <<".", "b">>
      [] module = "./b.js"    -> <<".", "b.js">>
      [] module = "../a"      -> <<"..", "a">>
      [] module = "./missing" -> <<".", "missing">>
      [] OTHER                -> <<module>>

\* module.startsWith('./') || module.startsWith('../')
StartsRelative(module) ==
    Len(Segs(module)) >= 2 /\ Head(Segs(module)) \in {".", ".."}

Front(seq) == SubSeq(seq, 1, Len(seq) - 1)

\* path.dirname(p)
Dirname(p) == Path(p.abs, IF p.segs = << >> THEN << >> ELSE Front(p.segs))

\* the segments `base` followed by `rest`, with "." and ".." resolved
RECURSIVE Normalize(_, _)
Normalize(base, rest) ==
    IF rest = << >> THEN base
    ELSE IF Head(rest) = "." THEN Normalize(base, Tail(rest))
    ELSE IF Head(rest) = ".."
         THEN Normalize(IF base = << >> THEN base ELSE Front(base), Tail(rest))
    ELSE Normalize(Append(base, Head(rest)), Tail(rest))

\* path.resolve(dir, module): always an absolute path
PathResolve(dir, module) ==
    Path(TRUE, Normalize(IF dir.abs THEN dir.segs ELSE Cwd \o dir.segs, Segs(module)))

NoPath == Path(FALSE, << >>)

\* null is NoPath (no file has the empty relative path)
resolveImportPath(module, fromFile) ==
    IF StartsRelative(module)
    THEN PathResolve(Dirname(fromFile.path), module)
    ELSE NoPath

(***************************************************************************)
(* CodebaseScanner.buildDependencyGraph                                    *)
(***************************************************************************)
EmptyGraph == [nodes |-> << >>, edges |-> << >>, clusters |-> << >>]

GraphNode(file) ==
    [id |-> file.relativePath, name |-> file.name, type |-> "file",
     size |-> file.size, complexity |-> file.complexity,
     functions |-> Len(file.analysis.functions),
     classes |-> Len(file.analysis.classes)]

\* for (const imp of file.analysis.imports): the edges of one file
RECURSIVE FileEdges(_, _)
FileEdges(file, i) ==
    IF i > Len(file.analysis.imports) THEN << >>
    ELSE LET targetPath == resolveImportPath(file.analysis.imports[i].module, file)
         IN  (IF targetPath # NoPath
              THEN << [source |-> file.relativePath, target |-> targetPath,
                       type |-> "import", weight |-> 1] >>
              ELSE << >>)
             \o FileEdges(file, i + 1)

RECURSIVE AllEdges(_, _)
AllEdges(parsed, f) ==
    IF f > Len(parsed) THEN << >>
    ELSE FileEdges(parsed[f], 1) \o AllEdges(parsed, f + 1)

buildDependencyGraph(parsed) ==
    [nodes |-> [f \in 1..Len(parsed) |-> GraphNode(parsed[f])],
     edges |-> AllEdges(parsed, 1),
     clusters |-> << >>]

(***************************************************************************)
(* Strings and numbers.  A string is atomic, so toLowerCase and includes   *)
(* are tables over the strings of the model.  A number is a fraction       *)
(* num/den, or NaN; n/0 with n > 0 is Infinity.                            *)
(***************************************************************************)
\* s.toLowerCase()
ToLowerCase(s) ==
    CASE s = "Foo"              -> "foo"
      [] s = "Notify"           -> "notify"
      [] s = "addEventListener" -> "addeventlistener"
      [] s = "createUser"       -> "createuser"
      [] s = "UserModel.js"     -> "usermodel.js"
      [] s = "AppSingleton"     -> "appsingleton"
      [] OTHER                  -> s

\* the search strings of the source that occur in s
KeywordsOf(s) ==
    CASE s = "UserModel.js"  -> {"Model"}
      [] s = "usermodel.js"  -> {"model"}
      [] s = "models"        -> {"model"}
      [] s = "views"         -> {"view"}
      [] s = "controllers"   -> {"controller"}
      [] s = "components"    -> {"component"}
      [] s = "createUser"    -> {"create"}
      [] s = "createuser"    -> {"create"}
      [] s = "appsingleton"  -> {"singleton"}
      [] s = "config.js"     -> {"config"}
      [] s = "how does authentication work" -> {"authentication"}
      [] s = "service-controller.js" -> {"service", "controller"}
      [] s = "model-store.js"        -> {"model", "store"}
      [] s = "middleware-helper.js"  -> {"middleware", "helper"}
      [] OTHER               -> {}

\* s.includes(sub)
Includes(s, sub) == sub \in KeywordsOf(s)

\* relativePath.includes('/dir/'): dir is a segment with a segment before it
\* and one after it
PathIncludesDir(p, dir) ==
    \E i \in 1..(Len(p.segs) - 1) : p.segs[i] = dir /\ (i > 1 \/ p.abs)

Rat(num, den) == [nan |-> FALSE, num |-> num, den |-> den]

NaN == [nan |-> TRUE, num |-> 0, den |-> 1]

\* a / b for integers a >= 0 and b >= 0
JsDiv(a, b) == IF a = 0 /\ b = 0 THEN NaN ELSE Rat(a, b)

\* Math.min(x, 1)
MathMinOne(x) == IF x.nan THEN NaN ELSE IF x.num > x.den THEN Rat(1, 1) ELSE x

\* Math.round(x * 100) / 100 for x >= 0: the nearest hundredth, a half
\* rounded up
RoundHundredths(x) ==
    IF x.nan \/ x.den = 0 THEN x
    ELSE Rat((200 * x.num + x.den) \div (2 * x.den), 100)

RECURSIVE Sum(_)
Sum(seq) == IF seq = << >> THEN 0 ELSE Head(seq) + Sum(Tail(seq))

\* the records of a sequence of sequences, flattened: flatMap
RECURSIVE Flatten(_)
Flatten(seqs) == IF seqs = << >> THEN << >> ELSE Head(seqs) \o Flatten(Tail(seqs))

(***************************************************************************)
(* CodebaseScanner.calculateMetrics                                        *)
(***************************************************************************)
\* calculateMetrics counting the lines of the content kept with each file
\* (the record of a file that failed to parse keeps '' and lineCount 0)
calculateMetricsFromContent(parsed) ==
    LET totalFiles == Len(parsed)
        avgComplexity ==
            JsDiv(Sum([f \in 1..Len(parsed) |-> parsed[f].complexity]), 10 * totalFiles)
    IN  [totalLines     |-> Sum([f \in 1..Len(parsed) |-> LineCount(parsed[f].content)]),
         totalFiles     |-> totalFiles,
         totalFunctions |-> Sum([f \in 1..Len(parsed) |-> Len(parsed[f].analysis.functions)]),
         totalClasses   |-> Sum([f \in 1..Len(parsed) |-> Len(parsed[f].analysis.classes)]),
         avgComplexity  |-> RoundHundredths(avgComplexity),
         languages      |-> { parsed[f].extension : f \in 1..Len(parsed) }]

\* file.complexity is kept in tenths, so the sum of the scores divided by
\* totalFiles is (sum of tenths) / (10 * totalFiles)
calculateMetrics(parsed) ==
    LET totalFiles == Len(parsed)
        avgComplexity ==
            JsDiv(Sum([f \in 1..Len(parsed) |-> parsed[f].complexity]), 10 * totalFiles)
    IN  [totalLines     |-> Sum([f \in 1..Len(parsed) |-> parsed[f].lineCount]),
         totalFiles     |-> totalFiles,
         totalFunctions |-> Sum([f \in 1..Len(parsed) |-> Len(parsed[f].analysis.functions)]),
         totalClasses   |-> Sum([f \in 1..Len(parsed) |-> Len(parsed[f].analysis.classes)]),
         avgComplexity  |-> RoundHundredths(avgComplexity),
         languages      |-> { parsed[f].extension : f \in 1..Len(parsed) }]

(***************************************************************************)
(* CodebaseScanner: the pattern detectors and detectArchitecturalPatterns  *)
(***************************************************************************)
\* f.name.toLowerCase().includes(word) || f.relativePath.includes('/dir/')
MatchesCategory(f, word, dir) ==
    Includes(ToLowerCase(f.name), word) \/ PathIncludesDir(f.relativePath, dir)

Number(b) == IF b THEN 1 ELSE 0

detectMVCPattern(fileSeq) ==
    LET hasModels == \E f \in 1..Len(fileSeq) : MatchesCategory(fileSeq[f], "model", "models")
        hasViews == \E f \in 1..Len(fileSeq) : MatchesCategory(fileSeq[f], "view", "views")
        hasControllers ==
            \E f \in 1..Len(fileSeq) : MatchesCategory(fileSeq[f], "controller", "controllers")
    IN  [detected   |-> hasModels /\ hasViews /\ hasControllers,
         confidence |-> Rat(Number(hasModels) + Number(hasViews) + Number(hasControllers), 3),
         evidence   |-> [hasModels |-> hasModels, hasViews |-> hasViews,
                         hasControllers |-> hasControllers]]

detectModulePattern(fileSeq) ==
    LET hasExports == \E f \in 1..Len(fileSeq) : Len(fileSeq[f].analysis.exports) > 0
        hasImports == \E f \in 1..Len(fileSeq) : Len(fileSeq[f].analysis.imports) > 0
    IN  [detected   |-> hasExports /\ hasImports,
         confidence |-> Rat(8, 10),
         evidence   |-> [modularStructure |-> TRUE]]

IsFactoryFunction(fn) ==
    Includes(ToLowerCase(fn.name), "factory") \/ Includes(ToLowerCase(fn.name), "create")

detectFactoryPattern(fileSeq) ==
    LET factoryFunctions ==
            Len(Flatten([f \in 1..Len(fileSeq) |->
                    SelectSeq(fileSeq[f].analysis.functions, IsFactoryFunction)]))
    IN  [detected   |-> factoryFunctions > 0,
         confidence |-> MathMinOne(JsDiv(factoryFunctions, Len(fileSeq))),
         evidence   |-> [factoryFunctions |-> factoryFunctions]]

\* cls.methods is always [], so only the name decides
IsSingletonClass(cls) == Includes(ToLowerCase(cls.name), "singleton")

detectSingletonPattern(fileSeq) ==
    LET singletonClasses ==
            Len(Flatten([f \in 1..Len(fileSeq) |->
                    SelectSeq(fileSeq[f].analysis.classes, IsSingletonClass)]))
    IN  [detected   |-> singletonClasses > 0,
         confidence |-> Rat(9, 10),
         evidence   |-> [singletonClasses |-> singletonClasses]]

\* the list the lowercased function name is looked up in
ObserverNames == {"subscribe", "unsubscribe", "notify", "addEventListener"}

IsObserverMethod(fn) == ToLowerCase(fn.name) \in ObserverNames

detectObserverPattern(fileSeq) ==
    LET observerMethods ==
            Len(Flatten([f \in 1..Len(fileSeq) |->
                    SelectSeq(fileSeq[f].analysis.functions, IsObserverMethod)]))
    IN  [detected   |-> observerMethods > 0,
         confidence |-> MathMinOne(JsDiv(observerMethods, 10)),
         evidence   |-> [observerMethods |-> observerMethods]]

\* the detectors sharing their evidence: a file in which the factory
\* detector counted a function is not looked at by the observer detector
detectArchitecturalPatternsClaimingFiles(parsed) ==
    LET Unclaimed(file) == SelectSeq(file.analysis.functions, IsFactoryFunction) = << >>
    IN  [mvc        |-> detectMVCPattern(parsed),
         modules    |-> detectModulePattern(parsed),
         factories  |-> detectFactoryPattern(parsed),
         singletons |-> detectSingletonPattern(parsed),
         observers  |-> detectObserverPattern(SelectSeq(parsed, Unclaimed))]

detectArchitecturalPatterns(parsed) ==
    [mvc        |-> detectMVCPattern(parsed),
     modules    |-> detectModulePattern(parsed),
     factories  |-> detectFactoryPattern(parsed),
     singletons |-> detectSingletonPattern(parsed),
     observers  |-> detectObserverPattern(parsed)]

(***************************************************************************)
(* Server: generateMockDependencies and analyzeUploadedFiles               *)
(***************************************************************************)
MockNode(id, type, size) == [id |-> Path(FALSE, <<id>>), type |-> type, size |-> size]
MockEdge(source, target) ==
    [source |-> Path(FALSE, <<source>>), target |-> Path(FALSE, <<target>>)]

generateMockDependencies(isReact, isExpress) ==
    [nodes |-> << MockNode("index.js", "entry", 40) >>
               \o (IF isReact
                   THEN << MockNode("App.jsx", "component", 45),
                           MockNode("Header.jsx", "component", 30),
                           MockNode("Dashboard.jsx", "component", 50) >>
                   ELSE << >>)
               \o (IF isExpress
                   THEN << MockNode("server.js", "server", 40),
                           MockNode("routes.js", "routes", 35),
                           MockNode("middleware.js", "middleware", 25) >>
                   ELSE << >>),
     edges |-> (IF isReact
                THEN << MockEdge("index.js", "App.jsx"),
                        MockEdge("App.jsx", "Header.jsx"),
                        MockEdge("App.jsx", "Dashboard.jsx") >>
                ELSE << >>)
               \o (IF isExpress
                   THEN << MockEdge("server.js", "routes.js"),
                           MockEdge("server.js", "middleware.js") >>
                   ELSE << >>)]

generateMockPatterns(isReact, isExpress) ==
    LET keys == {"modules", "factories"}
                \cup (IF isReact THEN {"componentPattern", "hooks"} ELSE {})
                \cup (IF isExpress THEN {"mvc", "middleware"} ELSE {})
    IN  [k \in keys |->
            CASE k = "modules"          -> [detected |-> TRUE,  confidence |-> Rat(9, 10)]
              [] k = "factories"        -> [detected |-> FALSE, confidence |-> Rat(2, 10)]
              [] k = "componentPattern" -> [detected |-> TRUE,  confidence |-> Rat(95, 100)]
              [] k = "hooks"            -> [detected |-> TRUE,  confidence |-> Rat(8, 10)]
              [] k = "mvc"              -> [detected |-> TRUE,  confidence |-> Rat(85, 100)]
              [] k = "middleware"       -> [detected |-> TRUE,  confidence |-> Rat(9, 10)]]

\* an error left the loop of analyzeUploadedFiles
UploadRaised(uploadedFiles) ==
    \E i \in 1..Len(uploadedFiles) :
        AnalyzeUploadedFile(uploadedFiles[i].name, uploadedFiles[i].content).raised

\* (2.0 + Math.random() * 0.5).toFixed(1): one of "2.0" .. "2.5", in tenths
RandomComplexityTenths == 20..25

\* `random` is the value Math.random() led to
analyzeUploadedFiles(uploadedFiles, random) ==
    LET analyzedFiles ==
            [i \in 1..Len(uploadedFiles) |->
                AnalyzeUploadedFile(uploadedFiles[i].name, uploadedFiles[i].content).rec]
        languages == { analyzedFiles[i].extension : i \in 1..Len(analyzedFiles) }
        hasNode == /\ "js" \in languages
                   /\ \E i \in 1..Len(uploadedFiles) : uploadedFiles[i].name = "package.json"
    IN  [by |-> "analyzeUploadedFiles",
         files |-> analyzedFiles,
         dependencies |-> generateMockDependencies(FALSE, hasNode),
         patterns |-> generateMockPatterns(FALSE, hasNode),
         metrics |->
           [totalLines     |-> Sum([i \in 1..Len(analyzedFiles) |-> analyzedFiles[i].lineCount]),
            totalFiles     |-> Len(uploadedFiles),
            totalFunctions |-> Sum([i \in 1..Len(analyzedFiles) |->
                                      Len(analyzedFiles[i].analysis.functions)]),
            totalClasses   |-> Sum([i \in 1..Len(analyzedFiles) |->
                                      Len(analyzedFiles[i].analysis.classes)]),
            avgComplexity  |-> Rat(random, 10),
            languages      |-> languages]]

(***************************************************************************)
(* Server: generateSmartArchitecturalInsights                              *)
(***************************************************************************)
\* seq with the items of `items` it does not hold yet, in order (Set.add)
RECURSIVE AddAll(_, _)
AddAll(seq, items) ==
    IF items = << >> THEN seq ELSE AddAll(Append1(seq, Head(items)), Tail(items))

\* seq.slice(0, n)
Slice(seq, n) == SubSeq(seq, 1, IF Len(seq) < n THEN Len(seq) ELSE n)

Has(seq, x) == \E i \in 1..Len(seq) : seq[i] = x

\* the framework and tool tests, in the order of the source: a dependency of
\* `deps` adds `framework`
FrameworkRules ==
    << [deps |-> {"react", "@types/react"},     framework |-> "React"],
       [deps |-> {"vue", "@vue/cli"},           framework |-> "Vue.js"],
       [deps |-> {"angular", "@angular/core"},  framework |-> "Angular"],
       [deps |-> {"express"},                   framework |-> "Express.js"],
       [deps |-> {"next", "next.js"},           framework |-> "Next.js"],
       [deps |-> {"nuxt", "nuxt.js"},           framework |-> "Nuxt.js"],
       [deps |-> {"svelte", "@sveltejs/kit"},   framework |-> "Svelte"],
       [deps |-> {"typescript"},                framework |-> "TypeScript"],
       [deps |-> {"webpack"},                   framework |-> "Webpack"],
       [deps |-> {"vite"},                      framework |-> "Vite"],
       [deps |-> {"jest", "vitest"},            framework |-> "Testing Framework"] >>

\* the file-name tests, in the order of the source
PatternRules ==
    << [words |-> {"component", "Component"},   pattern |-> "Component-Based Architecture"],
       [words |-> {"service", "Service"},       pattern |-> "Service Layer Pattern"],
       [words |-> {"controller", "Controller"}, pattern |-> "MVC Pattern"],
       [words |-> {"model", "Model"},           pattern |-> "Data Models"],
       [words |-> {"store", "redux"},           pattern |-> "State Management"],
       [words |-> {"middleware"},               pattern |-> "Middleware Pattern"],
       [words |-> {"config", "Config"},         pattern |-> "Configuration Management"],
       [words |-> {"util", "helper"},           pattern |-> "Utility Functions"] >>

\* the frameworks the dependencies of a parsed manifest add
DetectedFrameworks(pkg) ==
    LET deps == Range(DependencyKeys(pkg))
        Fires(rule) == rule.deps \cap deps # {}
        fired == SelectSeq(FrameworkRules, Fires)
    IN  [i \in 1..Len(fired) |-> fired[i].framework]

\* the framework detection without its try/catch: the error of JSON.parse
\* leaves the summarizer
ManifestFrameworksUncaught(content) ==
    LET pkg == JsonParse(content)
    IN  [raised |-> ~pkg.ok,
         frameworks |-> IF pkg.ok THEN DetectedFrameworks(pkg) ELSE << >>]

\* try { JSON.parse ...; frameworks.add ... } catch (e) { log }
ManifestFrameworks(content) ==
    LET pkg == JsonParse(content)
    IN  [raised |-> FALSE,
         frameworks |-> IF pkg.ok THEN DetectedFrameworks(pkg) ELSE << >>]

\* file.name === 'package.json' && file.content
IsManifest(file) == file.name = "package.json" /\ file.content # << >>

\* the frameworks the file adds: only a package.json whose content is JSON
FileFrameworks(file) ==
    IF IsManifest(file) THEN ManifestFrameworks(file.content).frameworks ELSE << >>

FilePatterns(file) ==
    LET Fires(rule) == \E w \in rule.words : Includes(file.name, w)
        fired == SelectSeq(PatternRules, Fires)
    IN  [i \in 1..Len(fired) |-> fired[i].pattern]

\* file.relativePath?.split('/')[0] || 'root'
TopSegment(file) ==
    IF file.relativePath.abs \/ file.relativePath.segs = << >>
    THEN "root"
    ELSE file.relativePath.segs[1]

\* files.forEach(...): added[i] holds the names the i-th file adds
RECURSIVE CollectFrom(_, _, _)
CollectFrom(added, i, acc) ==
    IF i > Len(added) THEN acc
    ELSE CollectFrom(added, i + 1, AddAll(acc, added[i]))

\* the style chosen with the server framework tested before the client ones
ArchitecturalStyleServerFirst(frameworks, fileTypes) ==
    IF Has(frameworks, "Express.js")
    THEN "REST API / Backend Service"
    ELSE IF Has(frameworks, "React") \/ Has(frameworks, "Vue.js") \/ Has(frameworks, "Angular")
    THEN "Component-Based SPA"
    ELSE IF Has(frameworks, "Next.js") \/ Has(frameworks, "Nuxt.js")
    THEN "Full-Stack Framework"
    ELSE IF "html" \in fileTypes /\ "css" \in fileTypes /\ "js" \in fileTypes
    THEN "Vanilla Web Application"
    ELSE "Modular Architecture"

ArchitecturalStyle(frameworks, fileTypes) ==
    IF Has(frameworks, "React") \/ Has(frameworks, "Vue.js") \/ Has(frameworks, "Angular")
    THEN "Component-Based SPA"
    ELSE IF Has(frameworks, "Express.js")
    THEN "REST API / Backend Service"
    ELSE IF Has(frameworks, "Next.js") \/ Has(frameworks, "Nuxt.js")
    THEN "Full-Stack Framework"
    ELSE IF "html" \in fileTypes /\ "css" \in fileTypes /\ "js" \in fileTypes
    THEN "Vanilla Web Application"
    ELSE "Modular Architecture"

Responsibility(dir) ==
    IF Includes(dir, "component") THEN "UI Components"
    ELSE IF Includes(dir, "service") THEN "Business Logic"
    ELSE IF Includes(dir, "api") \/ Includes(dir, "route") THEN "API Endpoints"
    ELSE IF Includes(dir, "util") \/ Includes(dir, "helper") THEN "Utility Functions"
    ELSE IF Includes(dir, "config") THEN "Configuration"
    ELSE IF Includes(dir, "test") THEN "Testing"
    ELSE "Core functionality"

\* the entry of fileGroups[dir], as the component pushed for it
Component(fileSeq, dir) ==
    LET InGroup(file) == TopSegment(file) = dir
        groupFiles == SelectSeq(fileSeq, InGroup)
    IN  [name |-> IF dir = "root" THEN "Main Application" ELSE dir,
         responsibility |-> Responsibility(dir),
         files |-> [i \in 1..Len(groupFiles) |-> groupFiles[i].name],
         functions |-> Sum([i \in 1..Len(groupFiles) |-> Len(groupFiles[i].analysis.functions)]),
         classes |-> Sum([i \in 1..Len(groupFiles) |-> Len(groupFiles[i].analysis.classes)])]

Recommendations(metrics, frameworks, filePatterns, fileTypes, components) ==
    (IF metrics.totalFiles > 50 /\ ~Has(frameworks, "TypeScript")
     THEN << "Consider migrating to TypeScript for better type safety" >> ELSE << >>)
    \o (IF metrics.totalFunctions > 100 /\ ~Has(filePatterns, "Testing Framework")
        THEN << "Add comprehensive testing framework (Jest/Vitest)" >> ELSE << >>)
    \o (IF "js" \in fileTypes /\ ~Has(filePatterns, "Configuration Management")
        THEN << "Implement environment configuration management" >> ELSE << >>)
    \o (IF Len(components) > 5 /\ ~Has(filePatterns, "Component-Based Architecture")
        THEN << "Consider organizing code into reusable components" >> ELSE << >>)
    \o (IF metrics.totalFiles > 20 /\ ~Has(frameworks, "Vite") /\ ~Has(frameworks, "Webpack")
        THEN << "Add build tool for bundling and optimization" >> ELSE << >>)

\* an error left generateSmartArchitecturalInsights
InsightsRaised(analysisResult) ==
    \E i \in 1..Len(analysisResult.files) :
        /\ IsManifest(analysisResult.files[i])
        /\ ManifestFrameworks(analysisResult.files[i].content).raised

\* what the summarizer collects from the files before it builds the record
Collected(analysisResult) ==
    LET fileSeq == analysisResult.files
        metrics == analysisResult.metrics
        TypeOf(file) == << ToLowerCase(file.extension) >>
        Dir(file) == << TopSegment(file) >>
        fileTypes == Range(CollectFrom([i \in 1..Len(fileSeq) |-> TypeOf(fileSeq[i])], 1, << >>))
        frameworks == CollectFrom([i \in 1..Len(fileSeq) |-> FileFrameworks(fileSeq[i])], 1, << >>)
        filePatterns == CollectFrom([i \in 1..Len(fileSeq) |-> FilePatterns(fileSeq[i])], 1, << >>)
        dirs == CollectFrom([i \in 1..Len(fileSeq) |-> Dir(fileSeq[i])], 1, << >>)
        components == [i \in 1..Len(dirs) |-> Component(fileSeq, dirs[i])]
        dataFlow ==
            (IF Has(frameworks, "React") \/ Has(frameworks, "Vue.js")
             THEN << "Props and state flow through component hierarchy" >>
                  \o (IF Has(filePatterns, "State Management")
                      THEN << "Centralized state management with store/actions" >>
                      ELSE << >>)
             ELSE << >>)
            \o (IF Has(frameworks, "Express.js")
                THEN << "HTTP requests -> Routes -> Controllers -> Services -> Response" >>
                ELSE << >>)
            \o (IF "js" \in fileTypes /\ "html" \in fileTypes
                THEN << "DOM manipulation and event handling in JavaScript" >>
                ELSE << >>)
    IN  [fileTypes |-> fileTypes,
         frameworks |-> frameworks,
         patterns |-> filePatterns,
         components |-> components,
         dataFlow |-> dataFlow,
         recommendations |->
            Recommendations(metrics, frameworks, filePatterns, fileTypes, components)]

\* the record built without any slice(0, n)
InsightsUntruncated(analysisResult) ==
    LET c == Collected(analysisResult)
    IN  [architecturalStyle |-> ArchitecturalStyle(c.frameworks, c.fileTypes),
         components |-> c.components,
         patterns |-> c.patterns,
         frameworks |-> c.frameworks,
         dataFlow |-> IF c.dataFlow # << >> THEN c.dataFlow
                      ELSE << "Standard file-based code organization" >>,
         recommendations |-> c.recommendations,
         confidence |-> Rat(9, 10)]

\* the summary string is left out
generateSmartArchitecturalInsights(analysisResult) ==
    LET c == Collected(analysisResult)
    IN  [architecturalStyle |-> ArchitecturalStyle(c.frameworks, c.fileTypes),
         components |-> Slice(c.components, 6),
         patterns |-> Slice(c.patterns, 5),
         frameworks |-> c.frameworks,
         dataFlow |-> IF c.dataFlow # << >> THEN c.dataFlow
                      ELSE << "Standard file-based code organization" >>,
         recommendations |-> Slice(c.recommendations, 4),
         confidence |-> Rat(9, 10)]

(***************************************************************************)
(* CodebaseWhisperer: the constructor's choice of mock responses and       *)
(* answerQuestion.  The remote service is an outcome: the token request    *)
(* fails, the generation request fails, or both succeed.                   *)
(***************************************************************************)
\* constructor: useMockResponses = demoMode || !hasCredentials
CodebaseWhisperer(config) ==
    [hasCredentials   |-> config.hasCredentials,
     useMockResponses |-> config.demoMode \/ ~config.hasCredentials]

\* generateMockResponse: the canned answer of the first key the lowercased
\* question includes, or the default one; the record has `examples` and no
\* `codeExamples`
generateMockResponse(question) ==
    LET questionKey == IF Includes(ToLowerCase(question), "authentication")
                       THEN "authentication" ELSE "default"
    IN  [question |-> question, answer |-> <<"mock", questionKey>>,
         codeExamples |-> "undefined",
         confidence |-> IF questionKey = "authentication" THEN Rat(9, 10) ELSE Rat(7, 10),
         error |-> FALSE]

\* generateErrorResponse: again `examples`, no `codeExamples`
generateErrorResponse(question) ==
    [question |-> question, answer |-> <<"error">>, codeExamples |-> "undefined",
     confidence |-> Rat(1, 10), error |-> TRUE]

\* callGraniteModel: getAccessToken, then the generation request; either
\* request may fail, and the failure is rethrown
callGraniteModel(remote) ==
    [threw         |-> remote # "ok",
     tokenRequests |-> 1,
     modelRequests |-> IF remote = "tokenFails" THEN 0 ELSE 1]

\* answerQuestion: everything runs inside try, the catch returns
\* generateErrorResponse.  A null codebaseContext makes generateMockResponse
\* and buildCodeAnalysisPrompt throw before any request is made.
answerQuestion(whisperer, question, codebaseContext, remote) ==
    LET call == callGraniteModel(remote)
    IN  IF codebaseContext = "null"
        THEN [rejected |-> FALSE, tokenRequests |-> 0, modelRequests |-> 0,
              response |-> generateErrorResponse(question)]
        ELSE IF whisperer.useMockResponses
        THEN [rejected |-> FALSE, tokenRequests |-> 0, modelRequests |-> 0,
              response |-> generateMockResponse(question)]
        ELSE [rejected |-> FALSE, tokenRequests |-> call.tokenRequests,
              modelRequests |-> call.modelRequests,
              response |-> IF call.threw
                           THEN generateErrorResponse(question)
                           ELSE [question |-> question, answer |-> <<"granite">>,
                                 codeExamples |-> << >>, confidence |-> Rat(8, 10),
                                 error |-> FALSE]]

(***************************************************************************)
(* The pipeline: CodebaseScanner.scanRepository over the files found, or   *)
(* the server's analyzeUploadedFiles over the files uploaded               *)
(***************************************************************************)
\* the source files of the repository, in readdir order
Candidates ==
    << [dir |-> << >>, name |-> "a.js"],
       [dir |-> << >>, name |-> "b.js"],
       [dir |-> <<"lib">>, name |-> "c.js"] >>

ScanTexts ==
    { << >>,
      << Tok("import", "./b") >>,
      << Tok("import", "lodash"), Tok("nl", ""), Tok("fn", "foo") >>,
      << Tok("require", "../a"), Tok("class", "Foo") >>,
      << Tok("import", "./missing") >>,
      << Tok("letfn", "foo"), Tok("import", "./b.js") >> }

\* the repository path handed to scanRepository: /repo, or . in /work
RepoPaths == { Path(TRUE, <<"repo">>), Path(FALSE, << >>) }

UploadNames == << "a.js", "b.js", "package.json" >>

UploadTexts(name) ==
    IF name = "package.json"
    THEN { << Tok("manifest", "react") >>, << Tok("junk", "") >> }
    ELSE { << >>, << Tok("fn", "foo"), Tok("class", "Foo") >>, << Tok("import", "./b") >> }

NoOut == [raised |-> FALSE, analysis |-> EmptyUploadAnalysis]

NoPatterns == [k \in {} |-> [detected |-> FALSE, confidence |-> Rat(0, 1)]]

NoMetrics ==
    [totalLines |-> 0, totalFiles |-> 0, totalFunctions |-> 0, totalClasses |-> 0,
     avgComplexity |-> Rat(0, 1), languages |-> {}]

NoInsights ==
    [architecturalStyle |-> "", components |-> << >>, patterns |-> << >>,
     frameworks |-> << >>, dataFlow |-> << >>, recommendations |-> << >>,
     confidence |-> Rat(0, 1)]

NoResult ==
    [by |-> "none", files |-> << >>, dependencies |-> EmptyGraph,
     patterns |-> NoPatterns, metrics |-> NoMetrics, aiInsights |-> NoInsights]

NoMessage == [text |-> "", shownAt |-> 0]

AppIdle ==
    /\ now = 0
    /\ isAnalyzing = FALSE
    /\ currentAnalysis = 0
    /\ calls = << >>
    /\ lastCall = "none"
    /\ d3Loaded = FALSE
    /\ appWhisperer = CodebaseWhisperer([demoMode |-> FALSE, hasCredentials |-> FALSE])
    /\ messageDiv = 0
    /\ divs = 0
    /\ message = NoMessage
    /\ timers = {}
    /\ sent = << >>

CallIdle ==
    /\ callee = "none"
    /\ argument = << >>
    /\ applied = FALSE
    /\ returned = << >>

ExIdle ==
    /\ exFile = SourceFile(Path(TRUE, <<"repo">>), << >>, "app.js", << >>)
    /\ exContent = << >>
    /\ exBy = "none"
    /\ exOut = NoOut

ScanIdle ==
    /\ entry = "none"
    /\ files = << >>
    /\ disk = << >>
    /\ unreadable = {}
    /\ strategy = << >>
    /\ treeSitterLoaded = FALSE
    /\ parsersInit = "done"
    /\ pc = "idle"
    /\ idx = 0
    /\ parsedFiles = << >>
    /\ graph = EmptyGraph
    /\ patterns = NoPatterns
    /\ result = NoResult

ScanInit ==
    /\ ExIdle
    /\ CallIdle
    /\ AppIdle
    /\ \E S \in SUBSET (1..Len(Candidates)) :
         /\ Cardinality(S) <= MaxFiles
         /\ LET order == Ascending(S)
            IN  \/ \E text \in [S -> ScanTexts], repoPath \in RepoPaths :
                     /\ entry = "scanRepository"
                     /\ files = [i \in 1..Len(order) |->
                                   SourceFile(repoPath, Candidates[order[i]].dir,
                                              Candidates[order[i]].name, text[order[i]])]
                     /\ disk = [i \in 1..Len(order) |-> text[order[i]]]
                     /\ unreadable \in SUBSET (1..Len(order))
                \/ \E text \in [S -> UNION { UploadTexts(UploadNames[n]) : n \in S }] :
                     /\ S # {}
                     /\ \A n \in S : text[n] \in UploadTexts(UploadNames[n])
                     /\ entry = "analyzeUploadedFiles"
                     /\ files = [i \in 1..Len(order) |->
                                   [name |-> UploadNames[order[i]],
                                    content |-> text[order[i]]]]
                     /\ disk = << >>
                     /\ unreadable = {}
    /\ strategy = << >>
    \* the constructor: treeSitterLoaded = false, initializeParsers started
    /\ treeSitterLoaded = FALSE
    /\ parsersInit = "pending"
    /\ pc = "idle"
    /\ idx = 0
    /\ parsedFiles = << >>
    /\ graph = EmptyGraph
    /\ patterns = NoPatterns
    /\ result = NoResult

\* initializeParsers completes: the dynamic imports succeeded, or threw and
\* the catch block left treeSitterLoaded false
InitializeParsers ==
    /\ parsersInit = "pending"
    /\ parsersInit' = "done"
    /\ \E loaded \in BOOLEAN : treeSitterLoaded' = loaded
    /\ UNCHANGED <<exVars, callVars, appVars>>
    /\ UNCHANGED <<entry, files, disk, unreadable, strategy, pc, idx, parsedFiles, graph,
                   patterns, result>>

\* scanRepository up to the call of parseFiles (getRepositoryInfo and
\* findSourceFiles have returned `files`)
ScanRepository ==
    /\ entry = "scanRepository"
    /\ pc = "idle"
    /\ pc' = "parseFiles"
    /\ idx' = 1
    /\ parsedFiles' = << >>
    /\ UNCHANGED <<exVars, callVars, appVars>>
    /\ UNCHANGED <<entry, files, disk, unreadable, strategy, treeSitterLoaded, parsersInit,
                   graph, patterns, result>>

\* one iteration of the parseFiles loop
ParseFile ==
    /\ pc = "parseFiles"
    /\ idx <= Len(files)
    /\ LET readOk == idx \notin unreadable
           out == ParseOne(files[idx], disk[idx], treeSitterLoaded, readOk)
       IN  /\ parsedFiles' = Append(parsedFiles, out.rec)
           /\ pc' = IF out.raised THEN "failed" ELSE pc
           /\ strategy' = Append(strategy,
                  IF ~readOk THEN "unread"
                  ELSE IF treeSitterLoaded /\ files[idx].extension \in ParserExtensions
                       THEN "treeSitter"
                  ELSE "fallback")
    /\ idx' = idx + 1
    /\ UNCHANGED <<exVars, callVars, appVars>>
    /\ UNCHANGED <<entry, files, disk, unreadable, treeSitterLoaded, parsersInit,
                   graph, patterns, result>>

\* the graph built as soon as the first record exists, without awaiting
\* parseFiles
BuildDependencyGraphEarly ==
    /\ pc = "parseFiles"
    /\ idx > 1
    /\ graph' = buildDependencyGraph(parsedFiles)
    /\ pc' = "built"
    /\ UNCHANGED <<exVars, callVars, appVars>>
    /\ UNCHANGED <<entry, files, disk, unreadable, strategy, treeSitterLoaded, parsersInit, idx,
                   parsedFiles, patterns, result>>

\* parseFiles has returned; scanRepository calls buildDependencyGraph
BuildDependencyGraph ==
    /\ pc = "parseFiles"
    /\ idx > Len(files)
    /\ graph' = buildDependencyGraph(parsedFiles)
    /\ pc' = "built"
    /\ UNCHANGED <<exVars, callVars, appVars>>
    /\ UNCHANGED <<entry, files, disk, unreadable, strategy, treeSitterLoaded, parsersInit, idx,
                   parsedFiles, patterns, result>>

\* scanRepository calls detectArchitecturalPatterns
DetectArchitecturalPatterns ==
    /\ pc = "built"
    /\ patterns' = detectArchitecturalPatterns(parsedFiles)
    /\ pc' = "detected"
    /\ UNCHANGED <<exVars, callVars, appVars>>
    /\ UNCHANGED <<entry, files, disk, unreadable, strategy, treeSitterLoaded, parsersInit, idx,
                   parsedFiles, graph, result>>

\* scanRepository builds the analysis result, calling calculateMetrics, and
\* returns it
ScanReturn ==
    /\ pc = "detected"
    /\ result' = [by |-> "scanRepository", files |-> parsedFiles,
                  dependencies |-> graph, patterns |-> patterns,
                  metrics |-> calculateMetrics(parsedFiles),
                  aiInsights |-> NoInsights]
    /\ pc' = "done"
    /\ UNCHANGED <<exVars, callVars, appVars>>
    /\ UNCHANGED <<entry, files, disk, unreadable, strategy, treeSitterLoaded, parsersInit, idx,
                   parsedFiles, graph, patterns>>

\* POST /api/analyze with uploaded files: analyzeUploadedFiles, then
\* generateSmartArchitecturalInsights on its result; an error of either is
\* caught by the handler, which answers 500 and delivers no result
AnalyzeUploadedFiles ==
    /\ entry = "analyzeUploadedFiles"
    /\ pc = "idle"
    /\ \E random \in RandomComplexityTenths :
         LET analysisResult == analyzeUploadedFiles(files, random)
         IN  IF UploadRaised(files) \/ InsightsRaised(analysisResult)
             THEN /\ result' = result
                  /\ pc' = "failed"
             ELSE /\ result' = [by |-> analysisResult.by,
                                files |-> analysisResult.files,
                                dependencies |-> analysisResult.dependencies,
                                patterns |-> analysisResult.patterns,
                                metrics |-> analysisResult.metrics,
                                aiInsights |->
                                    generateSmartArchitecturalInsights(analysisResult)]
                  /\ pc' = "done"
    /\ UNCHANGED <<exVars, callVars, appVars>>
    /\ UNCHANGED <<entry, files, disk, unreadable, strategy, treeSitterLoaded, parsersInit, idx,
                   parsedFiles, graph, patterns>>

Next ==
    \/ InitializeParsers
    \/ ScanRepository
    \/ ParseFile
    \/ BuildDependencyGraph
    \/ DetectArchitecturalPatterns
    \/ ScanReturn
    \/ AnalyzeUploadedFiles

Spec == ScanInit /\ [][Next]_vars

(***************************************************************************)
(* Extraction of one file: the inputs are drawn in ExInit, an action       *)
(* applies one extractor                                                   *)
(***************************************************************************)
ExNames == {"app.js", "app.ts", "tool.py", "notes.md", "package.json", "data.json"}

AlphabetOf(extension) ==
    CASE extension = "py"   -> PyTokens
      [] extension = "json" -> JsonTokens
      [] OTHER              -> JsTokens

ExInit ==
    /\ ScanIdle
    /\ CallIdle
    /\ AppIdle
    /\ \E name \in ExNames :
         \E content \in TextsOver(AlphabetOf(ExtOf(name)), MaxLen) :
            /\ exFile = SourceFile(Path(TRUE, <<"repo">>), << >>, name, content)
            /\ exContent = content
    /\ exBy = "none"
    /\ exOut = NoOut

\* scanner.fallbackAnalysis(content, file)
ExFallback ==
    /\ exBy = "none"
    /\ exBy' = "fallbackAnalysis"
    /\ exOut' = [raised |-> FALSE, analysis |-> fallbackAnalysis(exContent, exFile)]
    /\ UNCHANGED <<exFile, exContent>>
    /\ UNCHANGED <<scanVars, callVars, appVars>>

\* one iteration of scanner.parseFiles on the file
ExParseFile ==
    /\ exBy = "none"
    /\ \E tsLoaded \in BOOLEAN, readOk \in BOOLEAN :
         LET out == ParseOne(exFile, exContent, tsLoaded, readOk)
         IN  /\ exBy' = (IF ~readOk THEN "parseFiles:unreadable"
                         ELSE IF tsLoaded THEN "parseFiles:treeSitter"
                         ELSE "parseFiles:fallback")
             /\ exOut' = [raised |-> out.raised, analysis |-> out.rec.analysis]
    /\ UNCHANGED <<exFile, exContent>>
    /\ UNCHANGED <<scanVars, callVars, appVars>>

\* one iteration of the server's analyzeUploadedFiles on the file
ExUpload ==
    /\ exBy = "none"
    /\ LET out == AnalyzeUploadedFile(exFile.name, exContent)
       IN  /\ exBy' = "analyzeUploadedFiles"
           /\ exOut' = [raised |-> out.raised, analysis |-> out.rec.analysis]
    /\ UNCHANGED <<exFile, exContent>>
    /\ UNCHANGED <<scanVars, callVars, appVars>>

ExNext == ExFallback \/ ExParseFile \/ ExUpload

SpecExtract == ExInit /\ [][ExNext]_vars

(***************************************************************************)
(* Calls of one function: the argument is drawn in CallInit, an action     *)
(* applies the function                                                    *)
(***************************************************************************)
\* the analysis of a text with f functions and c classes; calls is filled by
\* analyzeAST only, which throws at the first call expression, so it is empty
AnalysisWith(f, c) ==
    [EmptyAnalysis EXCEPT
        !.functions = [i \in 1..f |-> [name |-> "foo", line |-> i]],
        !.classes   = [i \in 1..c |-> [name |-> "Foo", line |-> i]]]

ComplexityArguments == { AnalysisWith(f, c) : f, c \in 0..MaxCount }

\* the files a detector is handed, as parseFiles records them
DetectCandidates ==
    << [dir |-> <<"models">>, name |-> "user.js",
        text |-> << Tok("fn", "subscribe") >>],
       [dir |-> <<"views">>, name |-> "home.js",
        text |-> << Tok("fn", "addEventListener") >>],
       [dir |-> <<"controllers">>, name |-> "home.js",
        text |-> << >>],
       [dir |-> <<"src", "models">>, name |-> "user.js",
        text |-> << Tok("fn", "Notify"), Tok("class", "AppSingleton") >>],
       [dir |-> <<"src", "views">>, name |-> "home.js",
        text |-> << Tok("fn", "createUser"), Tok("fn", "unsubscribe") >>],
       [dir |-> <<"src", "controllers">>, name |-> "home.js",
        text |-> << Tok("import", "./b"), Tok("fn", "foo") >>],
       [dir |-> << >>, name |-> "UserModel.js",
        text |-> << Tok("class", "Foo") >>] >>

DetectFile(c) ==
    ParseOne(SourceFile(Path(TRUE, <<"repo">>), c.dir, c.name, c.text), c.text,
             FALSE, TRUE).rec

DetectArguments ==
    { [i \in 1..Cardinality(S) |-> DetectFile(DetectCandidates[Ascending(S)[i]])] :
        S \in { T \in SUBSET (1..Len(DetectCandidates)) : Cardinality(T) <= MaxCollection } }

\* an analysed file as the server records it, with n functions found in it
\* (the summarizer reads the text of package.json only)
AnalysedFile(dir, name, content, n) ==
    [name |-> name, relativePath |-> Path(FALSE, dir \o <<name>>),
     size |-> Len(content), extension |-> ExtOf(name), content |-> content,
     lineCount |-> IF content # << >> THEN LineCount(content) ELSE 0,
     analysis |-> [EmptyUploadAnalysis EXCEPT
                     !.functions = [i \in 1..n |-> [name |-> i, type |-> "function"]]]]

\* the manifests a project may hold
ManifestTexts ==
    { << Tok("manifest", "") >>, << Tok("manifest", "react") >>,
      << Tok("manifest", "express") >>, << Tok("manifest", "react,express") >>,
      << Tok("manifest", "next") >>, << Tok("manifest", "express,jest") >>,
      << Tok("manifest", "jest") >>, << Tok("junk", "") >> }

InsightCandidates ==
    << AnalysedFile(<< >>, "README.md", << Tok("junk", "") >>, 0),
       AnalysedFile(<< >>, "server.js", << Tok("fn", "foo") >>, 1),
       AnalysedFile(<<"src">>, "App.js", << Tok("fn", "foo") >>, 1),
       AnalysedFile(<<"src", "components">>, "Header.js", << Tok("junk", "") >>, 0),
       AnalysedFile(<< >>, "index.html", << Tok("junk", "") >>, 0),
       AnalysedFile(<< >>, "style.css", << Tok("junk", "") >>, 0),
       AnalysedFile(<< >>, "hundred.js", << Tok("junk", "") >>, 100),
       AnalysedFile(<< >>, "big.js", << Tok("junk", "") >>, 101) >>

\* the result handed to the summarizer: the files and the metrics summed
\* over them, as analyzeUploadedFiles and createEnhancedGitHubAnalysis do
AnalysisResultOf(fileSeq) ==
    [files |-> fileSeq,
     metrics |->
       [totalLines     |-> Sum([i \in 1..Len(fileSeq) |-> fileSeq[i].lineCount]),
        totalFiles     |-> Len(fileSeq),
        totalFunctions |-> Sum([i \in 1..Len(fileSeq) |-> Len(fileSeq[i].analysis.functions)]),
        totalClasses   |-> Sum([i \in 1..Len(fileSeq) |-> Len(fileSeq[i].analysis.classes)])]]

\* files whose names hold the words of the file-name tests
NamedCandidates ==
    << AnalysedFile(<<"src">>, "service-controller.js", << Tok("junk", "") >>, 0),
       AnalysedFile(<<"src">>, "model-store.js", << Tok("junk", "") >>, 0),
       AnalysedFile(<<"src">>, "middleware-helper.js", << Tok("junk", "") >>, 0) >>

\* the files of lib/ of a large project
BulkFiles ==
    [i \in 1..Len(BulkNames) |-> AnalysedFile(<<"lib">>, BulkNames[i], << Tok("junk", "") >>, 0)]

InsightProjects(named, bulk) ==
    { AnalysisResultOf(m \o named \o bulk
                       \o [i \in 1..Cardinality(S) |-> InsightCandidates[Ascending(S)[i]]]) :
        m \in { << >> } \cup { << AnalysedFile(<< >>, "package.json", t, 0) >> : t \in ManifestTexts },
        S \in SUBSET (1..Len(InsightCandidates)) }

\* the projects handed to the summarizer: an optional manifest, then the
\* first k named files (small projects) or all named files and lib/ (large
\* projects), then any of the further files
InsightArguments ==
    UNION { InsightProjects(SubSeq(NamedCandidates, 1, k), << >>) :
              k \in 0..Len(NamedCandidates) }
    \cup InsightProjects(NamedCandidates, BulkFiles)

\* the whisperer's configuration, the question, the context and the outcome
\* of the remote service
Questions == {"what is this", "how does authentication work"}

RemoteOutcomes == {"ok", "tokenFails", "generationFails"}

AnswerArguments ==
    [config : [demoMode : BOOLEAN, hasCredentials : BOOLEAN],
     question : Questions,
     codebaseContext : {"null", "analysis"},
     remote : RemoteOutcomes]

CallInit ==
    /\ ExIdle
    /\ ScanIdle
    /\ AppIdle
    /\ \/ callee = "calculateComplexity" /\ argument \in ComplexityArguments
       \/ callee = "detectArchitecturalPatterns" /\ argument \in DetectArguments
       \/ callee = "generateSmartArchitecturalInsights" /\ argument \in InsightArguments
       \/ callee = "answerQuestion" /\ argument \in AnswerArguments
    /\ applied = FALSE
    /\ returned = << >>

\* scanner.calculateComplexity(analysis), and the score of the analysis with
\* one more function and with one more class
CalculateComplexity ==
    /\ callee = "calculateComplexity"
    /\ ~applied
    /\ applied' = TRUE
    /\ returned' =
         [score      |-> calculateComplexity(argument),
          plusFunction |->
             calculateComplexity([argument EXCEPT
                 !.functions = Append(@, [name |-> "bar", line |-> 1])]),
          plusClass  |->
             calculateComplexity([argument EXCEPT
                 !.classes = Append(@, [name |-> "Foo", line |-> 1])])]
    /\ UNCHANGED <<callee, argument>>
    /\ UNCHANGED <<exVars, scanVars, appVars>>

\* scanner.detectArchitecturalPatterns(parsedFiles)
CallDetectArchitecturalPatterns ==
    /\ callee = "detectArchitecturalPatterns"
    /\ ~applied
    /\ applied' = TRUE
    /\ returned' = detectArchitecturalPatterns(argument)
    /\ UNCHANGED <<callee, argument>>
    /\ UNCHANGED <<exVars, scanVars, appVars>>

\* generateSmartArchitecturalInsights(analysisResult)
CallGenerateSmartArchitecturalInsights ==
    /\ callee = "generateSmartArchitecturalInsights"
    /\ ~applied
    /\ applied' = TRUE
    /\ returned' = generateSmartArchitecturalInsights(argument)
    /\ UNCHANGED <<callee, argument>>
    /\ UNCHANGED <<exVars, scanVars, appVars>>

\* new CodebaseWhisperer(config).answerQuestion(question, codebaseContext)
CallAnswerQuestion ==
    /\ callee = "answerQuestion"
    /\ ~applied
    /\ applied' = TRUE
    /\ returned' = answerQuestion(CodebaseWhisperer(argument.config), argument.question,
                                  argument.codebaseContext, argument.remote)
    /\ UNCHANGED <<callee, argument>>
    /\ UNCHANGED <<exVars, scanVars, appVars>>

CallNext ==
    \/ CalculateComplexity
    \/ CallDetectArchitecturalPatterns
    \/ CallGenerateSmartArchitecturalInsights
    \/ CallAnswerQuestion

SpecCall == CallInit /\ [][CallNext]_vars

(***************************************************************************)
(* The browser application CodebaseWhispererApp: analyzeRepository,        *)
(* displayAnalysisResults, askQuestion, showMessage and loadDemoData.      *)
(* An action is what runs between two awaits.  Time is counted in units of *)
(* TickMs; a timer fires when its delay has elapsed.                       *)
(***************************************************************************)
TickMs == 500

\* setTimeout(..., 3000) of showMessage
HideDelay == 3000 \div TickMs

\* the simulated delays of analyzeGitHubRepo and of analyzeUploadedFiles
AnalysisDelay(input) == IF input = "url" THEN 2000 \div TickMs ELSE 1500 \div TickMs

\* what the user has put into the form: nothing, a repository URL, files
FormInputs == {"none", "url", "files"}

\* what the user has typed into #queryInput
QueryInputs == {"", " ", "what is this"}

\* question.trim()
Trim(s) == IF s = " " THEN "" ELSE s

\* the guard of analyzeRepository: an analysis is in progress
AnalysisNeverInProgress == FALSE

AnalysisInProgress == isAnalyzing

\* the guards of askQuestion, without the test of currentAnalysis
CanAskWithoutAnalysis(question) == question # ""

\* the guards of askQuestion before the call of whisperer.answerQuestion
CanAsk(question) == question # "" /\ currentAnalysis # 0

\* showMessage: the element is created unless the document has one, its
\* text is replaced, and a new timer is set for that element
ShowMessage(text) ==
    LET div == IF messageDiv = 0 THEN divs + 1 ELSE messageDiv
    IN  /\ messageDiv' = div
        /\ divs' = IF messageDiv = 0 THEN divs + 1 ELSE divs
        /\ message' = [text |-> text, shownAt |-> now]
        /\ timers' = timers \cup { [div |-> div, due |-> now + HideDelay] }

InFlight == { i \in 1..Len(calls) : calls[i].state \in {"analyzing", "displaying"} }

Unanswered == { i \in 1..Len(sent) : ~sent[i].answered }

\* no continuation is waiting for a promise that is already resolved: with
\* mock responses the whisperer answers without awaiting anything
Settled ==
    appWhisperer.useMockResponses =>
        /\ \A i \in 1..Len(calls) : calls[i].state # "displaying"
        /\ Unanswered = {}

\* the user acts: at most MaxTimers hide timers are pending then
UserActs == Settled /\ Cardinality(timers) < MaxTimers

AppInit ==
    /\ ExIdle
    /\ ScanIdle
    /\ CallIdle
    /\ now = 0
    /\ isAnalyzing = FALSE
    /\ currentAnalysis = 0
    /\ calls = << >>
    /\ lastCall = "none"
    /\ d3Loaded = FALSE
    /\ \E config \in [demoMode : BOOLEAN, hasCredentials : BOOLEAN] :
          appWhisperer = CodebaseWhisperer(config)
    /\ messageDiv = 0
    /\ divs = 0
    /\ message = NoMessage
    /\ timers = {}
    /\ sent = << >>

\* the script element of the visualizer has loaded D3
D3Loads ==
    /\ ~d3Loaded
    /\ d3Loaded' = TRUE
    /\ UNCHANGED <<exVars, scanVars, callVars>>
    /\ UNCHANGED <<now, isAnalyzing, currentAnalysis, calls, lastCall, appWhisperer,
                   messageDiv, divs, message, timers, sent>>

\* time passes: nothing that is due is left waiting
Tick ==
    /\ now < MaxTime
    /\ Settled
    /\ \A t \in timers : t.due > now
    /\ \A i \in 1..Len(calls) : calls[i].state = "analyzing" => calls[i].due > now
    /\ now' = now + 1
    /\ UNCHANGED <<exVars, scanVars, callVars>>
    /\ UNCHANGED <<isAnalyzing, currentAnalysis, calls, lastCall, d3Loaded, appWhisperer,
                   messageDiv, divs, message, timers, sent>>

\* a hide timer of showMessage fires: it removes its element if the element
\* is still in the document
HideTimer ==
    /\ Settled
    /\ \E t \in timers :
         /\ t.due = now
         /\ timers' = timers \ {t}
         /\ messageDiv' = IF messageDiv = t.div THEN 0 ELSE messageDiv
    /\ UNCHANGED <<exVars, scanVars, callVars>>
    /\ UNCHANGED <<now, isAnalyzing, currentAnalysis, calls, lastCall, d3Loaded,
                   appWhisperer, divs, message, sent>>

\* analyzeRepository up to its first await, called with `input` in the form
StartAnalysis(input) ==
    IF AnalysisInProgress
    THEN /\ lastCall' = "ignored"
         /\ UNCHANGED <<isAnalyzing, calls, messageDiv, divs, message, timers>>
    ELSE IF input = "none"
    THEN /\ lastCall' = "refused"
         /\ ShowMessage("Please provide a repository URL or upload files")
         /\ UNCHANGED <<isAnalyzing, calls>>
    ELSE /\ lastCall' = "started"
         /\ isAnalyzing' = TRUE
         /\ ShowMessage("Analyzing codebase...")
         /\ calls' = Append(calls, [state |-> "analyzing", input |-> input,
                                    due |-> now + AnalysisDelay(input),
                                    before |-> currentAnalysis])

\* the user clicks the analysis button
AnalyzeRepository ==
    /\ UserActs
    /\ Len(calls) < MaxCalls \/ AnalysisInProgress
    /\ \E input \in FormInputs : StartAnalysis(input)
    /\ UNCHANGED <<exVars, scanVars, callVars>>
    /\ UNCHANGED <<now, currentAnalysis, d3Loaded, appWhisperer, sent>>

\* the user clicks the demo button: loadDemoData shows its message, fills
\* in the URL and calls analyzeRepository, whose message (if it starts)
\* replaces the first at once
LoadDemoData ==
    /\ UserActs
    /\ Len(calls) < MaxCalls \/ AnalysisInProgress
    /\ IF AnalysisInProgress
       THEN /\ lastCall' = "ignored"
            /\ ShowMessage("Loading demo data...")
            /\ UNCHANGED <<isAnalyzing, calls>>
       ELSE StartAnalysis("url")
    /\ UNCHANGED <<exVars, scanVars, callVars>>
    /\ UNCHANGED <<now, currentAnalysis, d3Loaded, appWhisperer, sent>>

\* the simulated delay of the i-th analysis has elapsed: analyzeRepository
\* stores the result and displayAnalysisResults runs up to its await of
\* whisperer.analyzeArchitecture
StoreAnalysis ==
    /\ Settled
    /\ \E i \in 1..Len(calls) :
         /\ calls[i].state = "analyzing"
         /\ calls[i].due = now
         /\ currentAnalysis' = i
         /\ calls' = [calls EXCEPT ![i].state = "displaying"]
    /\ UNCHANGED <<exVars, scanVars, callVars>>
    /\ UNCHANGED <<now, isAnalyzing, lastCall, d3Loaded, appWhisperer,
                   messageDiv, divs, message, timers, sent>>

\* analyzeArchitecture has returned (it never rejects): the insights are
\* displayed and the visualizer draws the diagram, which throws without D3;
\* then the try / catch / finally of analyzeRepository
DisplayAnalysisResults ==
    /\ \E i \in 1..Len(calls) :
         /\ calls[i].state = "displaying"
         /\ IF d3Loaded
            THEN /\ calls' = [calls EXCEPT ![i].state = "complete"]
                 /\ ShowMessage("Analysis complete!")
            ELSE /\ calls' = [calls EXCEPT ![i].state = "failed"]
                 /\ ShowMessage("Analysis failed: d3 is not defined")
    /\ isAnalyzing' = FALSE
    /\ UNCHANGED <<exVars, scanVars, callVars>>
    /\ UNCHANGED <<now, currentAnalysis, lastCall, d3Loaded, appWhisperer, sent>>

\* the file input changes: handleFileUpload
HandleFileUpload ==
    /\ UserActs
    /\ ShowMessage("Selected files")
    /\ UNCHANGED <<exVars, scanVars, callVars>>
    /\ UNCHANGED <<now, isAnalyzing, currentAnalysis, calls, lastCall, d3Loaded,
                   appWhisperer, sent>>

\* askQuestion up to its await of whisperer.answerQuestion
AskQuestion ==
    /\ UserActs
    /\ Len(sent) < MaxQuestions
    /\ \E input \in QueryInputs :
         LET question == Trim(input)
         IN  IF CanAsk(question)
             THEN /\ ShowMessage("AI is analyzing your question...")
                  /\ sent' = Append(sent, [question |-> question,
                                           codebaseContext |-> currentAnalysis,
                                           answered |-> FALSE])
             ELSE /\ ShowMessage(IF question = "" THEN "Please enter a question"
                                 ELSE "Please analyze a repository first")
                  /\ sent' = sent
    /\ UNCHANGED <<exVars, scanVars, callVars>>
    /\ UNCHANGED <<now, isAnalyzing, currentAnalysis, calls, lastCall, d3Loaded, appWhisperer>>

\* answerQuestion has returned: askQuestion renders the response, which
\* throws when the response has no codeExamples
AnswerReturned ==
    /\ \E i \in Unanswered, remote \in RemoteOutcomes :
         LET response == answerQuestion(appWhisperer, sent[i].question, "analysis",
                                        remote).response
         IN  /\ sent' = [sent EXCEPT ![i].answered = TRUE]
             /\ ShowMessage(IF response.codeExamples = "undefined"
                            THEN "Failed to answer question"
                            ELSE "Question answered!")
    /\ UNCHANGED <<exVars, scanVars, callVars>>
    /\ UNCHANGED <<now, isAnalyzing, currentAnalysis, calls, lastCall, d3Loaded, appWhisperer>>

AppNext ==
    \/ D3Loads
    \/ Tick
    \/ HideTimer
    \/ AnalyzeRepository
    \/ LoadDemoData
    \/ StoreAnalysis
    \/ DisplayAnalysisResults
    \/ HandleFileUpload
    \/ AskQuestion
    \/ AnswerReturned

SpecApp == AppInit /\ [][AppNext]_vars

(***************************************************************************)
(* Claims about the dependency graph (specification Spec)                  *)
(***************************************************************************)
NodeIds(g) == { g.nodes[i].id : i \in 1..Len(g.nodes) }

\* buildDependencyGraph has returned
GraphBuilt == entry = "scanRepository" /\ pc \in {"built", "detected", "done"}

\* C1: after buildDependencyGraph, the source and the target of every edge
\* are ids of nodes of the same graph.
C1_EdgeEndsAreNodes ==
    GraphBuilt =>
        \A e \in Range(graph.edges) :
            e.source \in NodeIds(graph) /\ e.target \in NodeIds(graph)

\* the absolute form of a path
Absolute(p) == IF p.abs THEN p ELSE Path(TRUE, Cwd \o p.segs)

\* a file name without its extension
StripExt(name) ==
    CASE name = "a.js" -> "a"
      [] name = "b.js" -> "b"
      [] name = "c.js" -> "c"
      [] OTHER         -> name

\* the scanned files the specifier `module` of file f resolves to: those
\* whose path, with or without its extension, is the specifier resolved
\* against f's directory
ResolvesTo(parsed, f, module) ==
    { g \in 1..Len(parsed) :
        LET p == Absolute(parsed[g].path)
            r == PathResolve(Dirname(parsed[f].path), module)
        IN  \/ r = p
            \/ r = Path(TRUE, Front(p.segs) \o << StripExt(parsed[g].name) >>) }

\* the edges the claim describes for file f, import by import
RECURSIVE ClaimedFileEdges(_, _, _)
ClaimedFileEdges(parsed, f, i) ==
    IF i > Len(parsed[f].analysis.imports) THEN << >>
    ELSE LET module == parsed[f].analysis.imports[i].module
             hit    == IF StartsRelative(module)
                          THEN ResolvesTo(parsed, f, module) ELSE {}
         IN  (IF hit = {} THEN << >>
              ELSE << [source |-> parsed[f].relativePath,
                       target |-> parsed[Min(hit)].relativePath] >>)
             \o ClaimedFileEdges(parsed, f, i + 1)

RECURSIVE ClaimedEdges(_, _)
ClaimedEdges(parsed, f) ==
    IF f > Len(parsed) THEN << >>
    ELSE ClaimedFileEdges(parsed, f, 1) \o ClaimedEdges(parsed, f + 1)

Ends(edges) == [i \in 1..Len(edges) |-> [source |-> edges[i].source, target |-> edges[i].target]]

\* C2: an edge is emitted for (f, m) iff m starts with ./ or ../ and
\* resolves, relative to f's directory, to a scanned file g, and it is then
\* the edge f.id -> g.id; a bare import or a relative import matching no
\* scanned file gives no edge.
C2_EdgeIffResolvable ==
    GraphBuilt => Ends(graph.edges) = ClaimedEdges(parsedFiles, 1)

\* C3: the graph delivered in an analysis result has exactly one node per
\* analysed file, whose id is the file's relative path and whose function and
\* class counts are the lengths of the file's function and class sequences.
C3_OneNodePerFile ==
    result.by # "none" =>
        /\ Len(result.dependencies.nodes) = Len(result.files)
        /\ \A i \in 1..Len(result.files) :
              /\ result.dependencies.nodes[i].id = result.files[i].relativePath
              /\ result.dependencies.nodes[i].functions
                    = Len(result.files[i].analysis.functions)
              /\ result.dependencies.nodes[i].classes
                    = Len(result.files[i].analysis.classes)

(***************************************************************************)
(* Claims about the aggregate metrics and the pattern verdicts of an       *)
(* analysis result (specification Spec)                                    *)
(***************************************************************************)
Delivered == result.by # "none"

\* C11: scanRepository never runs calculateMetrics on an empty file list, so
\* the avgComplexity it reports is always a defined number.
C11_MetricsNeverOnEmptySet ==
    result.by = "scanRepository" =>
        /\ Len(result.files) > 0
        /\ ~result.metrics.avgComplexity.nan

\* the complexity score of a file of a result, in tenths: the one recorded
\* with the file, or functions + 2 * classes where none is recorded
ScoreTenths(file) ==
    IF "complexity" \in DOMAIN file THEN file.complexity
    ELSE 10 * Len(file.analysis.functions) + 20 * Len(file.analysis.classes)

Abs(x) == IF x < 0 THEN -x ELSE x

\* x is a number of hundredths within half a hundredth of sumTenths/(10 n)
IsMeanToTwoPlaces(x, sumTenths, n) ==
    /\ ~x.nan
    /\ x.den > 0
    /\ (100 * x.num) % x.den = 0
    /\ 200 * Abs(x.num * 10 * n - sumTenths * x.den) <= x.den * 10 * n

\* C12: for a non-empty file collection the reported avgComplexity is the
\* arithmetic mean of the files' complexity scores rounded to two decimal
\* places (so the same files always give the same value).
C12_AvgComplexityIsMean ==
    (Delivered /\ Len(result.files) > 0) =>
        IsMeanToTwoPlaces(result.metrics.avgComplexity,
                          Sum([i \in 1..Len(result.files) |-> ScoreTenths(result.files[i])]),
                          Len(result.files))

\* C13: totalFiles is the number of files, totalLines the sum of their
\* lineCount, totalFunctions and totalClasses the sums of the lengths of
\* their functions and classes sequences.
C13_TotalsAreSums ==
    Delivered =>
        /\ result.metrics.totalFiles = Len(result.files)
        /\ result.metrics.totalLines
              = Sum([i \in 1..Len(result.files) |-> result.files[i].lineCount])
        /\ result.metrics.totalFunctions
              = Sum([i \in 1..Len(result.files) |-> Len(result.files[i].analysis.functions)])
        /\ result.metrics.totalClasses
              = Sum([i \in 1..Len(result.files) |-> Len(result.files[i].analysis.classes)])

\* scanRepository has returned for two files, one of them unreadable, the
\* other with a function on its second line
C13_Witness ==
    /\ result.by = "scanRepository"
    /\ result.metrics.totalFiles = 2
    /\ unreadable # {}
    /\ result.metrics.totalFunctions = 1
    /\ result.metrics.totalLines = 2

InUnitInterval(x) == ~x.nan /\ 0 <= x.num /\ x.num <= x.den

\* C16: the confidence of every pattern verdict of a delivered result is a
\* number in [0,1], for every file collection, the empty one included.
C16_ConfidenceInUnitInterval ==
    Delivered =>
        \A k \in DOMAIN result.patterns : InUnitInterval(result.patterns[k].confidence)

(***************************************************************************)
(* Claims about calculateComplexity, the pattern detectors and the         *)
(* summarizer (specification SpecCall)                                     *)
(***************************************************************************)
Called(fn) == callee = fn /\ applied

\* C14: the complexity score is non-negative; one more function never lowers
\* it; one more class raises it by exactly twice what one more function does.
C14_ComplexityMonotone ==
    Called("calculateComplexity") =>
        /\ returned.score >= 0
        /\ returned.plusFunction >= returned.score
        /\ returned.plusClass - returned.score
              = 2 * (returned.plusFunction - returned.score)

\* the score of an analysis with functions and classes, and the scores with
\* one more function (one more) and one more class (two more)
C14_Witness ==
    /\ Called("calculateComplexity")
    /\ argument.functions # << >>
    /\ argument.classes # << >>
    /\ returned.plusFunction = returned.score + 10
    /\ returned.plusClass = returned.score + 20

\* two numbers are equal
NumEq(x, y) == ~x.nan /\ ~y.nan /\ x.num * y.den = y.num * x.den

\* the file matches the category: its lowercased name contains the word, or
\* one of its directories, the top-level one included, is the category's
CategoryFile(f, word, dir) ==
    \/ Includes(ToLowerCase(f.name), word)
    \/ \E i \in 1..(Len(f.relativePath.segs) - 1) : f.relativePath.segs[i] = dir

\* C15: the MVC verdict is detected exactly when each of model, view and
\* controller has a matching file (by lowercased name or by a directory of
\* its path, a top-level one such as models/ included), with confidence the
\* number of matched categories over 3; models/user.js, views/home.js and
\* controllers/home.js give detected with confidence 1.
C15_MvcByNameOrDirectory ==
    Called("detectArchitecturalPatterns") =>
        LET Matched(word, dir) ==
                \E f \in 1..Len(argument) : CategoryFile(argument[f], word, dir)
            count == Number(Matched("model", "models")) + Number(Matched("view", "views"))
                     + Number(Matched("controller", "controllers"))
        IN  /\ returned.mvc.detected = (count = 3)
            /\ NumEq(returned.mvc.confidence, Rat(count, 3))

\* the function's name is, ignoring case, one of the four observer names
ObserverNamed(fn) ==
    ToLowerCase(fn.name) \in {"subscribe", "unsubscribe", "notify", "addeventlistener"}

\* C17: the observer verdict counts every function named, ignoring case,
\* subscribe, unsubscribe, notify or addEventListener; detected iff the count
\* is positive, confidence min(count / 10, 1).
C17_ObserverCountsAllFour ==
    Called("detectArchitecturalPatterns") =>
        LET count == Sum([f \in 1..Len(argument) |->
                            Len(SelectSeq(argument[f].analysis.functions, ObserverNamed))])
        IN  /\ returned.observers.detected = (count > 0)
            /\ NumEq(returned.observers.confidence,
                     Rat(IF count > 10 THEN 10 ELSE count, 10))

\* the file types of the files handed to the summarizer
FileTypesOf(analysisResult) ==
    { ToLowerCase(analysisResult.files[i].extension) : i \in 1..Len(analysisResult.files) }

\* C18: the architectural style is the first match of: React, Vue.js or
\* Angular detected - Component-Based SPA; Express.js - REST API / Backend
\* Service; Next.js or Nuxt.js - Full-Stack Framework; html, css and js files
\* all present - Vanilla Web Application; otherwise Modular Architecture.
\* With React and Express.js both detected it is the SPA label.
C18_StyleByPriority ==
    Called("generateSmartArchitecturalInsights") =>
        LET F == Range(returned.frameworks)
            T == FileTypesOf(argument)
        IN  /\ returned.architecturalStyle =
                  (IF F \cap {"React", "Vue.js", "Angular"} # {} THEN "Component-Based SPA"
                   ELSE IF "Express.js" \in F THEN "REST API / Backend Service"
                   ELSE IF F \cap {"Next.js", "Nuxt.js"} # {} THEN "Full-Stack Framework"
                   ELSE IF {"html", "css", "js"} \subseteq T THEN "Vanilla Web Application"
                   ELSE "Modular Architecture")
            /\ {"React", "Express.js"} \subseteq F
                  => returned.architecturalStyle = "Component-Based SPA"

\* a manifest declaring react and express: both frameworks detected, the SPA
\* label chosen
C18_Witness ==
    /\ Called("generateSmartArchitecturalInsights")
    /\ {"React", "Express.js"} \subseteq Range(returned.frameworks)
    /\ returned.architecturalStyle = "Component-Based SPA"

\* the bucket a file belongs in: its top-level directory, or the synthetic
\* root bucket (shown as Main Application) when its path has no directory
BucketOf(file) ==
    IF Len(file.relativePath.segs) <= 1 THEN "Main Application"
    ELSE file.relativePath.segs[1]

\* C19: every file is listed in the component named by its top-level
\* directory, every directory-less file in the one component Main
\* Application, and in no other component.
C19_DirectoryLessFilesInRoot ==
    Called("generateSmartArchitecturalInsights") =>
        \A i \in 1..Len(argument.files) :
            \A k \in 1..Len(returned.components) :
                (argument.files[i].name \in Range(returned.components[k].files))
                    <=> returned.components[k].name = BucketOf(argument.files[i])

TestingRecommendation == "Add comprehensive testing framework (Jest/Vitest)"

\* C20: the testing recommendation is produced exactly when the total
\* function count exceeds 100 and no test framework (jest or vitest in the
\* manifest) was detected.
C20_TestingRecommendedIffUntested ==
    Called("generateSmartArchitecturalInsights") =>
        (Has(returned.recommendations, TestingRecommendation)
            <=> /\ argument.metrics.totalFunctions > 100
                /\ ~Has(returned.frameworks, "Testing Framework"))

(***************************************************************************)
(* Claims about the extraction of one file (specification SpecExtract)     *)
(***************************************************************************)
Extracted == exBy # "none"

\* the name a function or class record carries
NameOf(rec) == rec.name

\* the specifier an import record carries: the server records the string,
\* the scanner a record holding it
ModuleOf(imp) == IF exBy = "analyzeUploadedFiles" THEN imp ELSE imp.module

Distinct(seq) == \A i, j \in 1..Len(seq) : i # j => seq[i] # seq[j]

FunctionNames == [i \in 1..Len(exOut.analysis.functions) |-> NameOf(exOut.analysis.functions[i])]
ClassNames    == [i \in 1..Len(exOut.analysis.classes) |-> NameOf(exOut.analysis.classes[i])]
ImportModules == [i \in 1..Len(exOut.analysis.imports) |-> ModuleOf(exOut.analysis.imports[i])]
ExportNames   == exOut.analysis.exports

\* C4: the functions sequence holds at most one record per function name.
C4_FunctionNamesDistinct == Extracted => Distinct(FunctionNames)

\* C5: every distinct module specifier appears exactly once in the imports
\* sequence, however often the text imports it.
C5_ImportModulesDistinct == Extracted => Distinct(ImportModules)

ExportKinds == {"modexp", "expdot", "export"}

\* the name an export statement contributes: its identifier, or "default"
ExportNameOf(tok) == IF tok.k = "export" THEN tok.n ELSE "default"

\* C6: for JavaScript-family text, every recorded export name is the name of
\* an export statement of the text ("default" when it names none), no name is
\* recorded twice, and a text with an export statement has a non-empty
\* exports sequence.
C6_ExportsRecorded ==
    (Extracted /\ exFile.extension \in JsFamily) =>
        /\ Distinct(ExportNames)
        /\ \A e \in Range(ExportNames) :
              \E i \in 1..Len(exContent) :
                 exContent[i].k \in ExportKinds /\ ExportNameOf(exContent[i]) = e
        /\ (\E i \in 1..Len(exContent) : exContent[i].k \in ExportKinds)
              => ExportNames # << >>

FunctionKinds == {"fn", "constfn", "letfn", "method", "arrow", "def"}
ClassKinds    == {"class", "pyclass"}
ImportKinds   == {"import", "require", "pyimport", "pyfrom"}

\* the name a token carries as a construct of the family `kinds`
TokenName(tok, kinds) == IF kinds = ExportKinds THEN ExportNameOf(tok) ELSE tok.n

\* the text positions at which the name occurs as a construct of the family
Occurrences(name, kinds) ==
    { i \in 1..Len(exContent) :
        exContent[i].k \in kinds /\ TokenName(exContent[i], kinds) = name }

FirstIndex(seq, x) == Min({ i \in 1..Len(seq) : seq[i] = x })

\* the names of `seq` are recorded in the order of their first occurrence
InTextOrder(seq, kinds) ==
    \A a, b \in Range(seq) :
        (/\ Occurrences(a, kinds) # {}
         /\ Occurrences(b, kinds) # {}
         /\ Min(Occurrences(a, kinds)) < Min(Occurrences(b, kinds)))
        => FirstIndex(seq, a) < FirstIndex(seq, b)

\* C7: in each of functions, classes, imports and exports the records appear
\* in the order in which their first occurrences appear in the text.
C7_RecordsInTextOrder ==
    Extracted =>
        /\ InTextOrder(FunctionNames, FunctionKinds)
        /\ InTextOrder(ClassNames, ClassKinds)
        /\ InTextOrder(ImportModules, ImportKinds)
        /\ InTextOrder(ExportNames, ExportKinds)

AllEmpty(a) ==
    a.functions = << >> /\ a.classes = << >> /\ a.imports = << >> /\ a.exports = << >>

IsSequence(x) == DOMAIN x = 1..Len(x)

FourSequences(a) ==
    /\ {"functions", "classes", "imports", "exports"} \subseteq DOMAIN a
    /\ IsSequence(a.functions) /\ IsSequence(a.classes)
    /\ IsSequence(a.imports) /\ IsSequence(a.exports)

HasHandledNode(content) == \E i \in 1..Len(content) : content[i].k \in HandledNodeKinds

IsJsonObject(content) ==
    /\ Cardinality({ i \in 1..Len(content) : content[i].k = "manifest" }) = 1
    /\ \A i \in 1..Len(content) : content[i].k \in {"manifest", "nl"}

\* the extraction met an internal error: the file could not be read, the
\* syntax-tree walk threw, or the manifest is no JSON
InternalError ==
    \/ exBy = "parseFiles:unreadable"
    \/ /\ exBy = "parseFiles:treeSitter"
       /\ exFile.extension \in ParserExtensions
       /\ HasHandledNode(exContent)
    \/ /\ exBy = "analyzeUploadedFiles"
       /\ exFile.name = "package.json"
       /\ ~IsJsonObject(exContent)

\* C8: for every input text the extraction returns the four sequences and
\* never raises; on an internal error it yields an all-empty result.
C8_NeverRaises ==
    Extracted =>
        /\ ~exOut.raised
        /\ FourSequences(exOut.analysis)
        /\ InternalError => AllEmpty(exOut.analysis)

\* a text with a function declaration whose syntax-tree walk threw, and the
\* all-empty result parseFiles recorded for it
C8_Witness ==
    /\ exBy = "parseFiles:treeSitter"
    /\ \E i \in 1..Len(exContent) : exContent[i].k = "fn"
    /\ exFile.extension = "js"
    /\ ~exOut.raised
    /\ AllEmpty(exOut.analysis)

KnownFamilies == JsFamily \cup {"py"}

\* C10 as stated: a file of an unknown extension gets all four sequences
\* empty, whatever its name and content.
C10_AllEmptyWhateverName ==
    (Extracted /\ exFile.extension \notin KnownFamilies) => AllEmpty(exOut.analysis)

\* C10, amended: a file of an unknown extension gets empty functions, classes
\* and exports whatever its name and content; its imports are empty too,
\* except for a package.json handed to the server's upload analysis, whose
\* imports are dependency names its JSON content declares.
C10_UnknownExtensionEmpty ==
    (Extracted /\ exFile.extension \notin KnownFamilies) =>
        /\ exOut.analysis.functions = << >>
        /\ exOut.analysis.classes = << >>
        /\ exOut.analysis.exports = << >>
        /\ exOut.analysis.imports # << >> =>
              /\ exBy = "analyzeUploadedFiles"
              /\ exFile.name = "package.json"
              /\ IsJsonObject(exContent)
              /\ \A m \in Range(ImportModules) :
                    \E i \in 1..Len(exContent) :
                       exContent[i].k = "manifest" /\ exContent[i].n = m

\* a markdown file whose text declares a function and imports a module, run
\* through fallbackAnalysis, with nothing extracted
C10_Witness ==
    /\ exBy = "fallbackAnalysis"
    /\ exFile.extension = "md"
    /\ \E i \in 1..Len(exContent) : exContent[i].k = "fn"
    /\ \E i \in 1..Len(exContent) : exContent[i].k = "import"
    /\ AllEmpty(exOut.analysis)

(***************************************************************************)
(* Claims about parseFiles (specification Spec)                            *)
(***************************************************************************)
\* the try block threw on the i-th file
Threw(i) ==
    \/ i \in unreadable
    \/ strategy[i] = "treeSitter" /\ HasHandledNode(disk[i])

\* C9: parseFiles pushes exactly one record per input file, in input order;
\* a file whose read or analysis throws gets all-empty sequences, lineCount 0
\* and complexity 0, and the files after it are still processed.
C9_OneRecordPerFile ==
    entry = "scanRepository" =>
        /\ pc # "failed"
        /\ pc = "parseFiles" => Len(parsedFiles) = idx - 1
        /\ pc \in {"built", "detected", "done"} => Len(parsedFiles) = Len(files)
        /\ \A i \in 1..Len(parsedFiles) :
              /\ parsedFiles[i].path = files[i].path
              /\ parsedFiles[i].relativePath = files[i].relativePath
              /\ IF Threw(i)
                 THEN /\ AllEmpty(parsedFiles[i].analysis)
                      /\ parsedFiles[i].lineCount = 0
                      /\ parsedFiles[i].complexity = 0
                 ELSE /\ parsedFiles[i].lineCount = LineCount(disk[i])
                      /\ parsedFiles[i].content = disk[i]

\* parseFiles has returned for two files: the first could not be read, the
\* second was analysed and its function recorded
C9_Witness ==
    /\ entry = "scanRepository"
    /\ pc = "built"
    /\ Len(files) = 2
    /\ 1 \in unreadable
    /\ parsedFiles[1].lineCount = 0
    /\ parsedFiles[2].analysis.functions # << >>

(***************************************************************************)
(* Claims about the upload request (specification Spec)                    *)
(***************************************************************************)
\* the delivered insight record has every field, with a style chosen and a
\* data-flow narrative
CompleteInsights(insights) ==
    /\ DOMAIN insights = {"architecturalStyle", "components", "patterns", "frameworks",
                          "dataFlow", "recommendations", "confidence"}
    /\ insights.architecturalStyle # ""
    /\ insights.dataFlow # << >>

UnparsableManifest(file) == file.name = "package.json" /\ ~IsJsonObject(file.content)

\* C21: an uploaded package.json whose content cannot be parsed never makes
\* the analysis fail: the request delivers a result with a complete insight
\* record, the manifest has an all-empty analysis and adds no framework.
C21_ManifestFailureSwallowed ==
    (entry = "analyzeUploadedFiles" /\ pc # "idle") =>
        /\ pc = "done"
        /\ result.by = "analyzeUploadedFiles"
        /\ CompleteInsights(result.aiInsights)
        /\ \A i \in 1..Len(files) :
              UnparsableManifest(files[i]) =>
                 /\ AllEmpty(result.files[i].analysis)
                 /\ result.aiInsights.frameworks = << >>

\* an upload of a.js and a package.json that is no JSON, answered with a
\* result
C21_Witness ==
    /\ entry = "analyzeUploadedFiles"
    /\ pc = "done"
    /\ Len(files) = 2
    /\ \E i \in 1..Len(files) : UnparsableManifest(files[i])
    /\ result.aiInsights.architecturalStyle = "Modular Architecture"

(***************************************************************************)
(* Claims about the insight record (specification SpecCall)                *)
(***************************************************************************)
IsPrefixOf(short, long, n) ==
    short = SubSeq(long, 1, IF Len(long) < n THEN Len(long) ELSE n)

\* C22: every insight record has at most 6 components, at most 5 pattern
\* names and at most 4 recommendations, each list being the first entries of
\* what was collected, in the order of collection (for the recommendations:
\* the first triggered ones, in the order the triggers are evaluated); its
\* data flow is not empty and its confidence is 0.9.
C22_InsightRecordBounded ==
    Called("generateSmartArchitecturalInsights") =>
        /\ Len(returned.components) <= 6
        /\ Len(returned.patterns) <= 5
        /\ Len(returned.recommendations) <= 4
        /\ IsPrefixOf(returned.components, Collected(argument).components, 6)
        /\ IsPrefixOf(returned.patterns, Collected(argument).patterns, 5)
        /\ IsPrefixOf(returned.recommendations, Collected(argument).recommendations, 4)
        /\ returned.dataFlow # << >>
        /\ NumEq(returned.confidence, Rat(9, 10))

\* more than 6 components, more than 5 patterns and all 5 recommendations
\* were collected, and the record holds 6, 5 and 4 of them
C22_Witness ==
    /\ Called("generateSmartArchitecturalInsights")
    /\ Len(Collected(argument).components) > 6
    /\ Len(Collected(argument).patterns) > 5
    /\ Len(Collected(argument).recommendations) = 5
    /\ Len(returned.components) = 6
    /\ Len(returned.patterns) = 5
    /\ Len(returned.recommendations) = 4
    /\ returned.dataFlow = << "Standard file-based code organization" >>

C25_AggregatesAfterAllParsed ==
    [][(entry = "scanRepository" /\ pc' # pc /\ pc' \in {"built", "detected", "done"}) =>
          /\ Len(parsedFiles) = Len(files)
          /\ \A i \in 1..Len(files) : parsedFiles[i].path = files[i].path
          /\ parsedFiles' = parsedFiles]_vars

\* the graph of a repository of two files was built from two records
C25_Witness ==
    /\ entry = "scanRepository"
    /\ pc = "built"
    /\ Len(files) = 2
    /\ Len(parsedFiles) = 2
    /\ Len(graph.nodes) = 2

\* C26: within one scan, the files that were read and whose extension has a
\* parser are all analysed by the syntax-tree parser or all by the regex
\* fallback.
C26_OneStrategyPerScan ==
    entry = "scanRepository" =>
        \A i, j \in 1..Len(strategy) :
            (/\ files[i].extension \in ParserExtensions
             /\ files[j].extension \in ParserExtensions
             /\ strategy[i] # "unread"
             /\ strategy[j] # "unread") => strategy[i] = strategy[j]

(***************************************************************************)
(* Claims about the AI layer (specification SpecCall)                      *)
(***************************************************************************)
IsMockResponse(response) == response.answer[1] = "mock"

\* C24: asked about an analysed codebase while the remote service is
\* unavailable (no credentials, demo mode, or a failing request),
\* answerQuestion does not reject and returns a mock response; with mock
\* responses in use no request is made to the remote service.
C24_MockWhenUnavailable ==
    (Called("answerQuestion") /\ argument.codebaseContext = "analysis") =>
        /\ ~returned.rejected
        /\ (\/ ~argument.config.hasCredentials
            \/ argument.config.demoMode
            \/ argument.remote # "ok") => IsMockResponse(returned.response)
        /\ CodebaseWhisperer(argument.config).useMockResponses =>
              returned.tokenRequests = 0 /\ returned.modelRequests = 0

(***************************************************************************)
(* Claims about the browser application (specification SpecApp)            *)
(***************************************************************************)
\* C27: isAnalyzing is true exactly while an analyzeRepository call is
\* between its start and its end, and at most one such call is in flight;
\* so a call made during an analysis starts nothing, and once the analysis
\* has ended, complete or failed, the flag is false again.
C27_OneAnalysisInFlight ==
    /\ Cardinality(InFlight) <= 1
    /\ isAnalyzing <=> InFlight # {}

\* a call was ignored during the second analysis, which started after the
\* first had failed
C27_Witness ==
    /\ Len(calls) = 2
    /\ calls[1].state = "failed"
    /\ calls[2].state = "analyzing"
    /\ lastCall = "ignored"
    /\ isAnalyzing

\* C28: when an analysis ends by reporting "Analysis failed",
\* currentAnalysis is what it was before that analysis started.
C28_FailureKeepsCurrentAnalysis ==
    [][\A i \in 1..Len(calls) :
          (calls[i].state # "failed" /\ calls'[i].state = "failed") =>
              currentAnalysis' = calls[i].before]_vars

\* C29: every question handed to whisperer.answerQuestion is non-empty
\* after trimming and was sent with a stored analysis result as its
\* context: the result of an analysis whose delay had elapsed.
C29_QuestionsOnlyAfterAnalysis ==
    \A i \in 1..Len(sent) :
        /\ Trim(sent[i].question) # ""
        /\ sent[i].codebaseContext # 0
        /\ sent[i].codebaseContext \in 1..Len(calls)
        /\ calls[sent[i].codebaseContext].state \in {"displaying", "complete", "failed"}

\* a question about the first analysis was sent and answered
C29_Witness ==
    /\ Len(sent) = 1
    /\ sent[1].question = "what is this"
    /\ sent[1].codebaseContext = 1
    /\ sent[1].answered

\* C30: the message element is removed from the document only when the
\* message it shows has been displayed for 3 seconds.
C30_MessageStaysThreeSeconds ==
    [][(messageDiv # 0 /\ messageDiv' = 0) => now >= message.shownAt + HideDelay]_vars

====
